---- MODULE Spec2Model ----
(***************************************************************************)
(* A model of plain_mcp_server: the GraphQL transport client               *)
(* (PlainClient.execute_query), the query builders and response            *)
(* normalizers of the seven tools of PlainMCPServer, and the               *)
(* analyze_thread_patterns workflow, the call_tool handler in front of     *)
(* them, and the tool functions of fastserver.py with their lazily         *)
(* created module-level client.  The PlainMCPServer instance and the       *)
(* fastserver module live in one interpreter and read one environment.     *)
(* Spec runs one operation at a time up to the exit of the process;        *)
(* ConcSpec and FastConcSpec run several operations of one server at once; *)
(* ClientSpec is a PlainClient used by itself, up to its close.            *)
(*                                                                         *)
(* Python values are tagged records [t, v]: t is the Python type and v     *)
(* the payload.  A str is a sequence of text tokens, so that formatting    *)
(* and joining are concatenations that can be taken apart again.           *)
(***************************************************************************)
EXTENDS Integers, Sequences, FiniteSets, TLC

\* env      os.environ, as far as the server reads it
\* client   self.client of the PlainMCPServer: "None" or "open" (an object
\*          that exists, whatever was done to its connection)
\* pc       where the coroutine of the operation in progress stands; "exited"
\*          once the process has ended
\* call     the operation in progress and its arguments
\* frame    the locals analyze_thread_patterns keeps across its second request
\* posts    the payloads the operation has posted, in order
\* replies  what came back for each of them, in order
\* fetched  what execute_query returned or raised for each of them, in order
\* outcome  what the operation returned or raised
\* plain_client  the module-level plain_client of fastserver: "None" or "open"
\* surface  how the operation in progress was invoked: "method" (the method of
\*          PlainMCPServer or PlainClient itself), "call_tool" or "fastmcp"
\* shown    what call_tool or the fastserver tool function returned or raised
\* endpoints  the URL each payload was posted to, in order
\* connections  the httpx.AsyncClient of every PlainClient constructed so far,
\*          in the order they were constructed, each with the number of
\*          aclose() calls made on it
VARIABLES env, client, pc, call, frame, posts, replies, fetched, outcome,
          plain_client, surface, shown, endpoints, connections

vars == <<env, client, pc, call, frame, posts, replies, fetched, outcome,
          plain_client, surface, shown, endpoints, connections>>

(***************************************************************************)
(* Bounds of the model.                                                    *)
(***************************************************************************)
\* longest errors collection of a reply
MaxErrors == 2
\* most edges in a listing reply
MaxListEdges == 2
\* most edges in a search reply (more than the 5 kept by pattern analysis)
MaxSearchEdges == 6
\* most invocations in flight at once
MaxTasks == 2

(***************************************************************************)
(* Program constants.                                                      *)
(***************************************************************************)
\* filtered_results[:5]
TopSimilar == 5
\* self._search_threads(search_terms, limit=10)
AnalyzeSearchLimit == 10
\* limit: int = 10
DefaultLimit == 10

(***************************************************************************)
(* Python values.                                                          *)
(***************************************************************************)
None == [t |-> "None", v |-> <<>>]
Str(s) == [t |-> "str", v |-> s]
Bool(b) == [t |-> "bool", v |-> b]
PyInt(n) == [t |-> "int", v |-> n]
Dict(f) == [t |-> "dict", v |-> f]
List(s) == [t |-> "list", v |-> s]

EmptyDict == Dict(<<>>)
EmptyList == List(<<>>)
EmptyStr == Str(<<>>)

\* bool(x)
Truthy(x) ==
    CASE x.t = "None" -> FALSE
      [] x.t = "str"  -> x.v # <<>>
      [] x.t = "bool" -> x.v
      [] x.t = "int"  -> x.v # 0
      [] x.t = "dict" -> DOMAIN x.v # {}
      [] x.t = "list" -> x.v # <<>>

\* the outcome of evaluating a Python expression: a value or a raised exception
Return(x) == [kind |-> "return", value |-> x]
Raise(type, msg) == [kind |-> "raise", value |-> [t |-> type, v |-> msg]]
NoOutcome == [kind |-> "none", value |-> None]

\* d.get(k, default) on a value that may not be a dict
Get(d, k, default) ==
    IF d.t # "dict"
    THEN Raise("AttributeError", <<"'", d.t, "' object has no attribute 'get'">>)
    ELSE IF k \in DOMAIN d.v THEN Return(d.v[k]) ELSE Return(default)

\* d[k] on a value that may not be a dict
Item(d, k) ==
    IF d.t # "dict"
    THEN Raise("TypeError", <<"'", d.t, "' object is not subscriptable">>)
    ELSE IF k \in DOMAIN d.v THEN Return(d.v[k]) ELSE Raise("KeyError", <<"'", k, "'">>)

\* sep.join(parts): parts is a sequence of token sequences
RECURSIVE Join(_, _)
Join(parts, sep) ==
    IF parts = <<>> THEN <<>>
    ELSE IF Len(parts) = 1 THEN parts[1]
    ELSE parts[1] \o <<sep>> \o Join(Tail(parts), sep)

\* the keys of the error objects of the model, in the order they are written
ReprKeys == <<"message", "code">>

RECURSIVE ReprItems(_, _)
ReprItems(d, keys) ==
    IF keys = <<>> THEN <<>>
    ELSE LET k == Head(keys)
             rest == ReprItems(d, Tail(keys))
         IN IF k \in DOMAIN d.v
            THEN <<<<"'", k, "': '">> \o d.v[k].v \o <<"'">>>> \o rest
            ELSE rest

\* str(x), as f"{x}" and str(error) compute it
PyStr(x) ==
    CASE x.t = "None" -> <<"None">>
      [] x.t = "str"  -> x.v
      [] x.t = "bool" -> IF x.v THEN <<"True">> ELSE <<"False">>
      [] x.t = "int"  -> <<ToString(x.v)>>
      [] x.t = "dict" -> <<"{">> \o Join(ReprItems(x, ReprKeys), ", ") \o <<"}">>
      [] x.t = "list" -> <<"[...]">>

\* json.dumps(x, indent=2): the JSON document the text spells out.  A dict
\* becomes an object, a list an array, a str a string, an int a number,
\* True/False/None become true/false/null.
RECURSIVE JsonDumps(_)
JsonDumps(x) ==
    CASE x.t = "dict" -> [t |-> "object", v |-> [k \in DOMAIN x.v |-> JsonDumps(x.v[k])]]
      [] x.t = "list" -> [t |-> "array", v |-> [i \in DOMAIN x.v |-> JsonDumps(x.v[i])]]
      [] x.t = "str"  -> [t |-> "string", v |-> x.v]
      [] x.t = "int"  -> [t |-> "number", v |-> x.v]
      [] x.t = "bool" -> [t |-> IF x.v THEN "true" ELSE "false", v |-> <<>>]
      [] x.t = "None" -> [t |-> "null", v |-> <<>>]

\* json.loads(text): the Python value of a JSON document
RECURSIVE JsonLoads(_)
JsonLoads(j) ==
    CASE j.t = "object" -> Dict([k \in DOMAIN j.v |-> JsonLoads(j.v[k])])
      [] j.t = "array"  -> List([i \in DOMAIN j.v |-> JsonLoads(j.v[i])])
      [] j.t = "string" -> Str(j.v)
      [] j.t = "number" -> PyInt(j.v)
      [] j.t = "true"   -> Bool(TRUE)
      [] j.t = "false"  -> Bool(FALSE)
      [] j.t = "null"   -> None

\* a str that holds the text of a JSON document
JsonText(j) == [t |-> "json", v |-> j]

\* [TextContent(type="text", text=text)], the content of a CallToolResult
TextContents(text) == List(<<[t |-> "TextContent", v |-> text]>>)

(***************************************************************************)
(* PlainClient.execute_query                                               *)
(***************************************************************************)
\* what the POST can come back with: a connection-level failure
\* (httpx.HTTPError: connection error, timeout, non-success status), a body
\* that is not JSON, or a decoded JSON body
HttpError(cls, cause) == [kind |-> "http_error", cls |-> cls, cause |-> cause, body |-> None]
BadJson(cause) == [kind |-> "bad_json", cls |-> "JSONDecodeError", cause |-> cause, body |-> None]
Body(b) == [kind |-> "body", cls |-> "", cause |-> <<>>, body |-> b]

\* PlainConfig.base_url: neither server reads another endpoint from anywhere
BaseUrl == "https://core-api.uk.plain.com/graphql/v1"

\* variant of Payload that passes variables on as given
PayloadVariablesAsGiven(query, variables) ==
    [query |-> query, variables |-> variables]

\* payload = {"query": query, "variables": variables or {}}
Payload(query, variables) ==
    [query |-> query, variables |-> IF Truthy(variables) THEN variables ELSE EmptyDict]

\* error.get("message", str(error))
ErrorMessage(error) == Get(error, "message", Str(PyStr(error)))

\* [error.get("message", str(error)) for error in data["errors"]]
RECURSIVE ErrorMessages(_)
ErrorMessages(errors) ==
    IF errors = <<>> THEN Return(<<>>)
    ELSE LET m == ErrorMessage(Head(errors))
             rest == ErrorMessages(Tail(errors))
         IN IF m.kind = "raise" THEN m
            ELSE IF rest.kind = "raise" THEN rest
            ELSE Return(<<m.value.v>> \o rest.value)

\* variant of GraphQLErrors that reports the first error only
GraphQLErrorsOnlyFirst(errors) ==
    IF errors.t # "list"
    THEN Raise("TypeError", <<"'", errors.t, "' object is not iterable">>)
    ELSE LET msgs == ErrorMessages(errors.v)
         IN IF msgs.kind = "raise" THEN msgs
            ELSE Raise("Exception",
                       <<"GraphQL errors: ">>
                       \o (IF msgs.value = <<>> THEN <<>> ELSE Head(msgs.value)))

\* raise Exception(f"GraphQL errors: {'; '.join(error_messages)}")
GraphQLErrors(errors) ==
    IF errors.t # "list"
    THEN Raise("TypeError", <<"'", errors.t, "' object is not iterable">>)
    ELSE LET msgs == ErrorMessages(errors.v)
         IN IF msgs.kind = "raise" THEN msgs
            ELSE Raise("Exception", <<"GraphQL errors: ">> \o Join(msgs.value, "; "))

\* variant of HttpErrorRaised that lets the httpx fault through as it is
HttpErrorUnwrapped(reply) == Raise(reply.cls, reply.cause)

\* except httpx.HTTPError as e: raise Exception(f"HTTP error: {e}")
HttpErrorRaised(reply) == Raise("Exception", <<"HTTP error: ">> \o reply.cause)

\* variant of DecodedData that returns a data section sent next to errors
DecodedDataPartialSuccess(data) ==
    IF "data" \in DOMAIN data.v
    THEN Return(data.v["data"])
    ELSE IF "errors" \in DOMAIN data.v THEN GraphQLErrors(data.v["errors"]) ELSE Return(EmptyDict)

\* the body decoded: if "errors" in data: raise ...; return data.get("data", {})
DecodedData(data) ==
    IF "errors" \in DOMAIN data.v
    THEN GraphQLErrors(data.v["errors"])
    ELSE Get(data, "data", EmptyDict)

\* the result of execute_query once the POST has come back with reply
ExecuteQuery(reply) ==
    CASE reply.kind = "http_error" -> HttpErrorRaised(reply)
      [] reply.kind = "bad_json"   -> Raise("ValueError", reply.cause)
      [] reply.kind = "body"       -> DecodedData(reply.body)

(***************************************************************************)
(* Query builders                                                          *)
(***************************************************************************)
\* variant of Filters that tests `is not None` instead of truthiness
FiltersNonNull(status, assignee_id, customer_id, include_resolved) ==
    (IF status # None THEN <<(<<"status: ">> \o PyStr(status))>> ELSE <<>>)
    \o (IF assignee_id # None
        THEN <<(<<"assignedToUser: {userId: \"">> \o PyStr(assignee_id) \o <<"\"}">>)>>
        ELSE <<>>)
    \o (IF customer_id # None
        THEN <<(<<"customerId: \"">> \o PyStr(customer_id) \o <<"\"">>)>>
        ELSE <<>>)
    \o (IF ~Truthy(include_resolved) THEN <<(<<"status: {isIn: [TODO, SNOOZED]}">>)>> ELSE <<>>)

\* variant of Filters that puts the default clause first
FiltersDefaultFirst(status, assignee_id, customer_id, include_resolved) ==
    (IF ~Truthy(include_resolved) THEN <<(<<"status: {isIn: [TODO, SNOOZED]}">>)>> ELSE <<>>)
    \o (IF Truthy(status) THEN <<(<<"status: ">> \o PyStr(status))>> ELSE <<>>)
    \o (IF Truthy(assignee_id)
        THEN <<(<<"assignedToUser: {userId: \"">> \o PyStr(assignee_id) \o <<"\"}">>)>>
        ELSE <<>>)
    \o (IF Truthy(customer_id)
        THEN <<(<<"customerId: \"">> \o PyStr(customer_id) \o <<"\"">>)>>
        ELSE <<>>)

\* filters = []; if status: ...; if assignee_id: ...; if customer_id: ...;
\* if not include_resolved: ...   (a sequence of clauses, each a token sequence)
Filters(status, assignee_id, customer_id, include_resolved) ==
    (IF Truthy(status) THEN <<(<<"status: ">> \o PyStr(status))>> ELSE <<>>)
    \o (IF Truthy(assignee_id)
        THEN <<(<<"assignedToUser: {userId: \"">> \o PyStr(assignee_id) \o <<"\"}">>)>>
        ELSE <<>>)
    \o (IF Truthy(customer_id)
        THEN <<(<<"customerId: \"">> \o PyStr(customer_id) \o <<"\"">>)>>
        ELSE <<>>)
    \o (IF ~Truthy(include_resolved) THEN <<(<<"status: {isIn: [TODO, SNOOZED]}">>)>> ELSE <<>>)

\* filters_str = ", ".join(filters); if filters_str: filters_str = f"filters: {{{filters_str}}}"
FiltersStr(filters) ==
    LET filters_str == Join(filters, ", ")
    IN IF filters_str # <<>> THEN <<"filters: {">> \o filters_str \o <<"}">> ELSE filters_str

\* query GetThreads { threads({filters_str}, first: {limit}) { ... } }
GetThreadsQuery(filters_str, limit) ==
    <<"query GetThreads { threads(">> \o filters_str \o <<", first: ">> \o PyStr(limit)
    \o <<") { edges { node { id title description status ... } } pageInfo { hasNextPage endCursor } } }">>

\* query SearchThreads { searchThreads(searchQuery: { term: "{query}" }, first: {limit}) ... }
SearchThreadsQuery(query, limit) ==
    <<"query SearchThreads { searchThreads(searchQuery: { term: \"">> \o PyStr(query)
    \o <<"\" }, first: ">> \o PyStr(limit)
    \o <<") { edges { node { thread { id title description status ... } } } } }">>

\* query GetThreadDetails { thread(threadId: "{thread_id}") { ... timeline(first: 20) ... } }
GetThreadDetailsQuery(thread_id) ==
    <<"query GetThreadDetails { thread(threadId: \"">> \o PyStr(thread_id)
    \o <<"\") { id title description status ... timeline(first: 20) { ... } } }">>

\* mutation UpdateThreadStatus { updateThread(input: { threadId: "..." status: ... }) ... }
UpdateThreadStatusMutation(thread_id, status) ==
    <<"mutation UpdateThreadStatus { updateThread(input: { threadId: \"">> \o PyStr(thread_id)
    \o <<"\" status: ">> \o PyStr(status)
    \o <<" }) { thread { id status statusChangedAt } error { message code } } }">>

\* mutation AddThreadNote { createThreadNote(input: { threadId: "..." text: "..." }) ... }
AddThreadNoteMutation(thread_id, content) ==
    <<"mutation AddThreadNote { createThreadNote(input: { threadId: \"">> \o PyStr(thread_id)
    \o <<"\" text: \"">> \o PyStr(content)
    \o <<"\" }) { threadNote { id text createdAt } error { message code } } }">>

\* query GetCustomer { customer(customerId: "{customer_id}") { ... } }
GetCustomerQuery(customer_id) ==
    <<"query GetCustomer { customer(customerId: \"">> \o PyStr(customer_id)
    \o <<"\") { id fullName email { ... } company { ... } tenantMemberships(first: 5) { ... } } }">>

(***************************************************************************)
(* Response normalizers                                                    *)
(***************************************************************************)
\* [edge["node"] for edge in edges]
RECURSIVE Nodes(_)
Nodes(edges) ==
    IF edges = <<>> THEN Return(<<>>)
    ELSE LET node == Item(Head(edges), "node")
         IN IF node.kind = "raise" THEN node
            ELSE LET rest == Nodes(Tail(edges))
                 IN IF rest.kind = "raise" THEN rest
                    ELSE Return(<<node.value>> \o rest.value)

\* [edge["node"]["thread"] for edge in edges]
RECURSIVE NodeThreads(_)
NodeThreads(edges) ==
    IF edges = <<>> THEN Return(<<>>)
    ELSE LET node == Item(Head(edges), "node")
         IN IF node.kind = "raise" THEN node
            ELSE LET thread == Item(node.value, "thread")
                 IN IF thread.kind = "raise" THEN thread
                    ELSE LET rest == NodeThreads(Tail(edges))
                         IN IF rest.kind = "raise" THEN rest
                            ELSE Return(<<thread.value>> \o rest.value)

\* data.get(key, {}).get("edges", []), then iterated
Edges(data, key) ==
    LET conn == Get(data, key, EmptyDict)
    IN IF conn.kind = "raise" THEN conn
       ELSE LET edges == Get(conn.value, "edges", EmptyList)
            IN IF edges.kind = "raise" THEN edges
               ELSE IF edges.value.t # "list"
               THEN Raise("TypeError", <<"'", edges.value.t, "' object is not iterable">>)
               ELSE edges

\* data.get("threads", {}).get("pageInfo", {}).get("hasNextPage", False)
HasMore(data) ==
    LET conn == Get(data, "threads", EmptyDict)
    IN IF conn.kind = "raise" THEN conn
       ELSE LET pageInfo == Get(conn.value, "pageInfo", EmptyDict)
            IN IF pageInfo.kind = "raise" THEN pageInfo
               ELSE Get(pageInfo.value, "hasNextPage", Bool(FALSE))

\* variant of FetchThreadsResult that lists the nodes last edge first
FetchThreadsResultReversed(data) ==
    LET edges == Edges(data, "threads")
    IN IF edges.kind = "raise" THEN edges
       ELSE LET threads == Nodes(edges.value.v)
            IN IF threads.kind = "raise" THEN threads
               ELSE LET hasMore == HasMore(data)
                        n == Len(threads.value)
                    IN IF hasMore.kind = "raise" THEN hasMore
                       ELSE Return(Dict([threads |-> List([i \in 1..n |-> threads.value[n + 1 - i]]),
                                         hasMore |-> hasMore.value]))

\* return {"threads": [edge["node"] for edge in ...], "hasMore": ...}
FetchThreadsResult(data) ==
    LET edges == Edges(data, "threads")
    IN IF edges.kind = "raise" THEN edges
       ELSE LET threads == Nodes(edges.value.v)
            IN IF threads.kind = "raise" THEN threads
               ELSE LET hasMore == HasMore(data)
                    IN IF hasMore.kind = "raise" THEN hasMore
                       ELSE Return(Dict([threads |-> List(threads.value),
                                         hasMore |-> hasMore.value]))

\* variant of SearchThreadsResult that adds a hasMore flag
SearchThreadsResultWithHasMore(data) ==
    LET edges == Edges(data, "searchThreads")
    IN IF edges.kind = "raise" THEN edges
       ELSE LET results == NodeThreads(edges.value.v)
            IN IF results.kind = "raise" THEN results
               ELSE Return(Dict([results |-> List(results.value), hasMore |-> Bool(FALSE)]))

\* return {"results": [edge["node"]["thread"] for edge in ...]}
SearchThreadsResult(data) ==
    LET edges == Edges(data, "searchThreads")
    IN IF edges.kind = "raise" THEN edges
       ELSE LET results == NodeThreads(edges.value.v)
            IN IF results.kind = "raise" THEN results
               ELSE Return(Dict([results |-> List(results.value)]))

\* variant of KeyedResult that raises on a populated error field
KeyedResultRaisesOnError(data, key) ==
    LET result == Get(data, key, EmptyDict)
    IN IF result.kind = "return" /\ result.value.t = "dict"
          /\ "error" \in DOMAIN result.value.v /\ Truthy(result.value.v["error"])
       THEN Raise("Exception", PyStr(result.value.v["error"]))
       ELSE result

\* return data.get(key, {})   (thread, customer, updateThread, createThreadNote)
KeyedResult(data, key) == Get(data, key, EmptyDict)

(***************************************************************************)
(* analyze_thread_patterns, between its two requests and after them        *)
(***************************************************************************)
NotFound == Dict([error |-> Str(<<"Thread not found">>)])

\* variant of SearchTerms that joins only the parts that are not empty
SearchTermsSkippingEmpty(thread_details) ==
    LET title == Get(thread_details, "title", EmptyStr)
    IN IF title.kind = "raise" THEN title
       ELSE LET description == Get(thread_details, "description", EmptyStr)
            IN IF description.kind = "raise" THEN description
               ELSE Return(Str(Join(SelectSeq(<<PyStr(title.value), PyStr(description.value)>>,
                                              LAMBDA part : part # <<>>), " ")))

\* title = thread_details.get("title", ""); description = ...;
\* search_terms = f"{title} {description}"
SearchTerms(thread_details) ==
    LET title == Get(thread_details, "title", EmptyStr)
    IN IF title.kind = "raise" THEN title
       ELSE LET description == Get(thread_details, "description", EmptyStr)
            IN IF description.kind = "raise" THEN description
               ELSE Return(Str(PyStr(title.value) \o <<" ">> \o PyStr(description.value)))

\* variant of FilteredResults that keeps the reference ticket
FilteredResultsKeepAll(results, thread_id) == Return(results)

\* for thread in results: if thread.get("id") != thread_id: filtered_results.append(thread)
RECURSIVE FilteredResults(_, _)
FilteredResults(results, thread_id) ==
    IF results = <<>> THEN Return(<<>>)
    ELSE LET id == Get(Head(results), "id", None)
         IN IF id.kind = "raise" THEN id
            ELSE LET rest == FilteredResults(Tail(results), thread_id)
                 IN IF rest.kind = "raise" THEN rest
                    ELSE IF id.value # thread_id
                    THEN Return(<<Head(results)>> \o rest.value)
                    ELSE rest

\* variant of Slice that keeps the last n
SliceFromEnd(xs, n) == SubSeq(xs, IF Len(xs) < n THEN 1 ELSE Len(xs) - n + 1, Len(xs))

\* xs[:n]
Slice(xs, n) == SubSeq(xs, 1, IF Len(xs) < n THEN Len(xs) ELSE n)

\* d.get(k) of a dict, None when absent
GetOrNone(d, k) == IF k \in DOMAIN d.v THEN d.v[k] ELSE None

\* variant of AnalysisResult that counts after truncation
AnalysisResultCountsKept(thread_details, filtered_results, search_terms) ==
    Dict([reference_thread |-> Dict([id |-> GetOrNone(thread_details, "id"),
                                     title |-> GetOrNone(thread_details, "title"),
                                     status |-> GetOrNone(thread_details, "status")]),
          similar_threads |-> List(Slice(filtered_results, TopSimilar)),
          analysis |-> Dict([total_found |-> PyInt(Len(Slice(filtered_results, TopSimilar))),
                             search_terms |-> search_terms])])

\* return {"reference_thread": {...}, "similar_threads": filtered_results[:5],
\*         "analysis": {"total_found": len(filtered_results), "search_terms": search_terms}}
AnalysisResult(thread_details, filtered_results, search_terms) ==
    Dict([reference_thread |-> Dict([id |-> GetOrNone(thread_details, "id"),
                                     title |-> GetOrNone(thread_details, "title"),
                                     status |-> GetOrNone(thread_details, "status")]),
          similar_threads |-> List(Slice(filtered_results, TopSimilar)),
          analysis |-> Dict([total_found |-> PyInt(Len(filtered_results)),
                             search_terms |-> search_terms])])

(***************************************************************************)
(* Inputs: tool arguments and the replies of the remote API                *)
(***************************************************************************)
SeqsUpTo(S, n) == UNION {[1..k -> S] : k \in 0..n}

ThreadIds == {Str(<<"th_1">>), Str(<<"th_2">>)}
StatusArgs == {None, EmptyStr, Str(<<"TODO">>)}
AssigneeArgs == {None, EmptyStr, Str(<<"user_1">>)}
CustomerArgs == {None, EmptyStr, Str(<<"cust_1">>)}
LimitArgs == {PyInt(5), PyInt(DefaultLimit)}
QueryArgs == {Str(<<"login">>), EmptyStr}
NewStatusArgs == {Str(<<"DONE">>), Str(<<"INVALID">>)}
ContentArgs == {Str(<<"Investigating">>)}
DaysBackArgs == {PyInt(7), PyInt(30)}

TransportFailures ==
    {HttpError("ConnectError", <<"Connection failed">>),
     HttpError("TimeoutException", <<"Request timed out">>),
     HttpError("HTTPStatusError", <<"404 Not Found">>)}

ErrorObjects ==
    {Dict([message |-> Str(<<"Thread not found">>)]),
     Dict([message |-> Str(<<"Access denied">>)]),
     Dict([code |-> Str(<<"E1">>)])}

\* the values of the "errors" key: a list (possibly empty) or null
ErrorsValues == {List(es) : es \in SeqsUpTo(ErrorObjects, MaxErrors)} \cup {None}

Thread(id) == Dict([id |-> id, title |-> Str(<<"Login bug">>), status |-> Str(<<"TODO">>)])

ListEdges == {Dict([node |-> Thread(id)]) : id \in ThreadIds} \cup {EmptyDict}
ListConnections ==
    {Dict(<<>>), Dict([pageInfo |-> Dict([hasNextPage |-> Bool(TRUE)])])}
    \cup {Dict([edges |-> List(es)]) : es \in SeqsUpTo(ListEdges, MaxListEdges)}
    \cup {Dict([edges |-> List(es), pageInfo |-> pi]) :
            es \in SeqsUpTo(ListEdges, MaxListEdges),
            pi \in {EmptyDict, Dict([hasNextPage |-> Bool(TRUE)]),
                    Dict([hasNextPage |-> Bool(FALSE)])}}
ListData ==
    {EmptyDict, Dict([threads |-> None])} \cup {Dict([threads |-> c]) : c \in ListConnections}

SearchHits == {Dict([id |-> id]) : id \in ThreadIds} \cup {EmptyDict}
SearchEdges == {Dict([node |-> Dict([thread |-> t])]) : t \in SearchHits}
MalformedSearchEdges ==
    {EmptyDict, Dict([node |-> EmptyDict]), Dict([node |-> Dict([thread |-> None])])}
SearchData ==
    {EmptyDict, Dict([searchThreads |-> EmptyDict])}
    \cup {Dict([searchThreads |-> Dict([edges |-> List(es)])]) :
            es \in SeqsUpTo(SearchEdges, MaxSearchEdges)}
    \cup {Dict([searchThreads |-> Dict([edges |-> List(<<e>>)])]) : e \in MalformedSearchEdges}

DetailRecords ==
    {Dict([id |-> Str(<<"th_1">>), title |-> Str(<<"Login bug">>),
           description |-> Str(<<"cannot log in">>), status |-> Str(<<"TODO">>)]),
     Dict([id |-> Str(<<"th_2">>), title |-> Str(<<"Login bug">>), description |-> None,
           status |-> Str(<<"DONE">>)]),
     Dict([id |-> Str(<<"th_1">>), description |-> EmptyStr])}
DetailData ==
    {EmptyDict, Dict([thread |-> None]), Dict([thread |-> EmptyDict])}
    \cup {Dict([thread |-> r]) : r \in DetailRecords}

CustomerData ==
    {EmptyDict, Dict([customer |-> None]),
     Dict([customer |-> Dict([id |-> Str(<<"cust_1">>), fullName |-> Str(<<"Ada">>)])])}

MutationResults(entity) ==
    {Dict((entity :> Dict([id |-> Str(<<"th_1">>)])) @@ ("error" :> None)),
     Dict((entity :> None) @@ ("error" :> Dict([message |-> Str(<<"Invalid status">>)])))}
UpdateData == {EmptyDict} \cup {Dict([updateThread |-> r]) : r \in MutationResults("thread")}
NoteData == {EmptyDict} \cup {Dict([createThreadNote |-> r]) : r \in MutationResults("threadNote")}

\* the data sections the remote API can send in answer to a document
DataFor(doc) ==
    CASE doc = "GetThreads"         -> ListData
      [] doc = "SearchThreads"      -> SearchData
      [] doc = "GetThreadDetails"   -> DetailData
      [] doc = "UpdateThreadStatus" -> UpdateData
      [] doc = "AddThreadNote"      -> NoteData
      [] doc = "GetCustomer"        -> CustomerData

\* a data section sent next to an errors collection (partial success)
PartialData(doc) ==
    CASE doc = "GetThreads"         ->
            Dict([threads |-> Dict([edges |-> List(<<Dict([node |-> Thread(Str(<<"th_1">>))])>>)])])
      [] doc = "SearchThreads"      ->
            Dict([searchThreads |-> Dict([edges |-> List(<<Dict([node |-> Dict([thread |-> Thread(Str(<<"th_2">>))])])>>)])])
      [] doc = "GetThreadDetails"   -> Dict([thread |-> Thread(Str(<<"th_1">>))])
      [] doc = "UpdateThreadStatus" -> Dict([updateThread |-> EmptyDict])
      [] doc = "AddThreadNote"      -> Dict([createThreadNote |-> EmptyDict])
      [] doc = "GetCustomer"        -> Dict([customer |-> Dict([id |-> Str(<<"cust_1">>)])])

\* everything the POST of a document can come back with
Replies(doc) ==
    TransportFailures \cup {BadJson(<<"Invalid JSON">>)}
    \cup {Body(EmptyDict), Body(Dict([data |-> None]))}
    \cup {Body(Dict([data |-> d])) : d \in DataFor(doc)}
    \cup {Body(Dict([errors |-> e])) : e \in ErrorsValues}
    \cup {Body(Dict([errors |-> e, data |-> PartialData(doc)])) : e \in ErrorsValues}

\* the documents and variables PlainClient.execute_query is called with directly
DirectQueries == {<<"query { test }">>}
VariablesArgs == {None, EmptyDict, Dict([var1 |-> Str(<<"value1">>)])}

\* the names call_tool dispatches on, and one it does not know
ToolNames ==
    {"fetch_threads", "search_threads", "get_thread_details", "update_thread_status",
     "add_thread_note", "get_customer_info", "analyze_thread_patterns"}
UnknownTool == "delete_thread"

\* the arguments a caller passes to a tool
Arguments(name) ==
    CASE name = "fetch_threads" ->
            [status : StatusArgs, assignee_id : AssigneeArgs, customer_id : CustomerArgs,
             limit : LimitArgs, include_resolved : {Bool(FALSE), Bool(TRUE)}]
      [] name = "search_threads" -> [query : QueryArgs, limit : LimitArgs]
      [] name = "get_thread_details" -> [thread_id : ThreadIds]
      [] name = "update_thread_status" -> [thread_id : ThreadIds, status : NewStatusArgs]
      [] name = "add_thread_note" -> [thread_id : ThreadIds, content : ContentArgs]
      [] name = "get_customer_info" -> [customer_id : {Str(<<"cust_1">>)}]
      [] name = "analyze_thread_patterns" -> [thread_id : ThreadIds, days_back : DaysBackArgs]
      [] OTHER -> {<<>>}

\* variant of QueryFor that asks for the threads of the last days_back days
QueryForWithLookback(name, args) ==
    CASE name = "fetch_threads" ->
            GetThreadsQuery(FiltersStr(Filters(args.status, args.assignee_id, args.customer_id,
                                               args.include_resolved)),
                            args.limit)
      [] name = "search_threads" -> SearchThreadsQuery(args.query, args.limit)
      [] name = "get_thread_details" -> GetThreadDetailsQuery(args.thread_id)
      [] name = "update_thread_status" -> UpdateThreadStatusMutation(args.thread_id, args.status)
      [] name = "add_thread_note" -> AddThreadNoteMutation(args.thread_id, args.content)
      [] name = "get_customer_info" -> GetCustomerQuery(args.customer_id)
      [] name = "analyze_thread_patterns" ->
            GetThreadDetailsQuery(args.thread_id) \o <<" since: ">> \o PyStr(args.days_back)

\* the document a tool builds from its arguments for its first request
QueryFor(name, args) ==
    CASE name = "fetch_threads" ->
            GetThreadsQuery(FiltersStr(Filters(args.status, args.assignee_id, args.customer_id,
                                               args.include_resolved)),
                            args.limit)
      [] name = "search_threads" -> SearchThreadsQuery(args.query, args.limit)
      [] name = "get_thread_details" -> GetThreadDetailsQuery(args.thread_id)
      [] name = "update_thread_status" -> UpdateThreadStatusMutation(args.thread_id, args.status)
      [] name = "add_thread_note" -> AddThreadNoteMutation(args.thread_id, args.content)
      [] name = "get_customer_info" -> GetCustomerQuery(args.customer_id)
      [] name = "analyze_thread_patterns" -> GetThreadDetailsQuery(args.thread_id)

(***************************************************************************)
(* The server: one PlainMCPServer, its client, and the operation in        *)
(* progress (pc is where its coroutine stands)                             *)
(***************************************************************************)
\* PlainClient.__init__: self.client = httpx.AsyncClient(...), not closed yet
NewConnection == [aclose |-> 0]

NoCall == [tool |-> "", args |-> <<>>]
NoFrame == [thread_details |-> None, search_terms |-> None]
NotInitialized == Raise("ValueError", <<"Plain.com client not initialized">>)

\* PlainMCPServer.__init__: self.client = None; the environment may or may
\* not hold PLAIN_API_KEY
Init ==
    /\ env \in [PLAIN_API_KEY : {None, Str(<<"key">>)}]
    /\ client = "None"
    /\ pc = "idle"
    /\ call = NoCall
    /\ frame = NoFrame
    /\ posts = <<>>
    /\ replies = <<>>
    /\ fetched = <<>>
    /\ outcome = NoOutcome
    /\ plain_client = "None"
    /\ surface = "method"
    /\ shown = NoOutcome
    /\ endpoints = <<>>
    /\ connections = <<>>

\* PlainMCPServer.initialize
Initialize ==
    /\ pc = "idle"
    /\ client = "None"
    /\ call' = [tool |-> "initialize", args |-> <<>>]
    /\ pc' = "done"
    /\ IF ~Truthy(env.PLAIN_API_KEY)
       THEN /\ outcome' = Raise("ValueError", <<"PLAIN_API_KEY environment variable is required">>)
            /\ client' = client
            /\ connections' = connections
       ELSE /\ outcome' = Return(None)
            /\ client' = "open"
            /\ connections' = Append(connections, NewConnection)
    /\ UNCHANGED <<env, frame, posts, replies, fetched, plain_client, surface, shown, endpoints>>

\* variant of Begin without the `if not self.client` check
BeginUnchecked(tool, args, query, awaiting) ==
    /\ call' = [tool |-> tool, args |-> args]
    /\ replies' = <<>>
    /\ fetched' = <<>>
    /\ outcome' = NoOutcome
    /\ posts' = <<Payload(query, None)>>
    /\ endpoints' = <<BaseUrl>>
    /\ pc' = awaiting
    /\ UNCHANGED <<env, client, frame, plain_client, surface, shown, connections>>

\* if not self.client: raise ValueError(...); data = await self.client.execute_query(query)
\* up to the point where the POST is in flight
Begin(tool, args, query, awaiting) ==
    /\ call' = [tool |-> tool, args |-> args]
    /\ replies' = <<>>
    /\ fetched' = <<>>
    /\ IF client = "None"
       THEN /\ outcome' = NotInitialized
            /\ posts' = <<>>
            /\ endpoints' = <<>>
            /\ pc' = "done"
       ELSE /\ outcome' = NoOutcome
            /\ posts' = <<Payload(query, None)>>
            /\ endpoints' = <<BaseUrl>>
            /\ pc' = awaiting
    /\ UNCHANGED <<env, client, frame, plain_client, surface, shown, connections>>

\* variant of Resume that posts the request once more after a failure
ResumeRetrying(doc, key) ==
    /\ \E reply \in Replies(doc) :
          LET data == ExecuteQuery(reply)
              again == data.kind = "raise" /\ Len(posts) = 1
          IN /\ replies' = Append(replies, reply)
             /\ fetched' = Append(fetched, data)
             /\ posts' = IF again THEN Append(posts, posts[1]) ELSE posts
             /\ endpoints' = IF again THEN Append(endpoints, BaseUrl) ELSE endpoints
             /\ pc' = IF again THEN "await" ELSE "done"
             /\ outcome' = IF again THEN NoOutcome
                           ELSE IF data.kind = "raise" THEN data
                           ELSE IF doc = "GetThreads" THEN FetchThreadsResult(data.value)
                           ELSE IF doc = "SearchThreads" THEN SearchThreadsResult(data.value)
                           ELSE KeyedResult(data.value, key)
    /\ UNCHANGED <<env, client, call, frame, plain_client, surface, shown, connections>>

\* the POST comes back; execute_query returns or raises; the operation's
\* return statement runs on what it returned
Resume(doc, key) ==
    /\ \E reply \in Replies(doc) :
          LET data == ExecuteQuery(reply)
          IN /\ replies' = Append(replies, reply)
             /\ fetched' = Append(fetched, data)
             /\ outcome' = IF data.kind = "raise" THEN data
                           ELSE IF doc = "GetThreads" THEN FetchThreadsResult(data.value)
                           ELSE IF doc = "SearchThreads" THEN SearchThreadsResult(data.value)
                           ELSE KeyedResult(data.value, key)
    /\ pc' = "done"
    /\ UNCHANGED <<env, client, call, frame, posts, plain_client, surface, shown, endpoints, connections>>

\* PlainMCPServer._fetch_threads
FetchThreads ==
    /\ pc = "idle"
    /\ \E status \in StatusArgs, assignee_id \in AssigneeArgs, customer_id \in CustomerArgs,
          limit \in LimitArgs, include_resolved \in {Bool(FALSE), Bool(TRUE)} :
             Begin("fetch_threads",
                   [status |-> status, assignee_id |-> assignee_id, customer_id |-> customer_id,
                    limit |-> limit, include_resolved |-> include_resolved],
                   GetThreadsQuery(
                       FiltersStr(Filters(status, assignee_id, customer_id, include_resolved)),
                       limit),
                   "await")

FetchThreadsResume ==
    /\ pc = "await"
    /\ call.tool = "fetch_threads"
    /\ Resume("GetThreads", "threads")

\* PlainMCPServer._search_threads
SearchThreads ==
    /\ pc = "idle"
    /\ \E query \in QueryArgs, limit \in LimitArgs :
             Begin("search_threads", [query |-> query, limit |-> limit],
                   SearchThreadsQuery(query, limit), "await")

SearchThreadsResume ==
    /\ pc = "await"
    /\ call.tool = "search_threads"
    /\ Resume("SearchThreads", "searchThreads")

\* PlainMCPServer._get_thread_details
GetThreadDetails ==
    /\ pc = "idle"
    /\ \E thread_id \in ThreadIds :
             Begin("get_thread_details", [thread_id |-> thread_id],
                   GetThreadDetailsQuery(thread_id), "await")

GetThreadDetailsResume ==
    /\ pc = "await"
    /\ call.tool = "get_thread_details"
    /\ Resume("GetThreadDetails", "thread")

\* PlainMCPServer._update_thread_status
UpdateThreadStatus ==
    /\ pc = "idle"
    /\ \E thread_id \in ThreadIds, status \in NewStatusArgs :
             Begin("update_thread_status", [thread_id |-> thread_id, status |-> status],
                   UpdateThreadStatusMutation(thread_id, status), "await")

UpdateThreadStatusResume ==
    /\ pc = "await"
    /\ call.tool = "update_thread_status"
    /\ Resume("UpdateThreadStatus", "updateThread")

\* PlainMCPServer._add_thread_note
AddThreadNote ==
    /\ pc = "idle"
    /\ \E thread_id \in ThreadIds, content \in ContentArgs :
             Begin("add_thread_note", [thread_id |-> thread_id, content |-> content],
                   AddThreadNoteMutation(thread_id, content), "await")

AddThreadNoteResume ==
    /\ pc = "await"
    /\ call.tool = "add_thread_note"
    /\ Resume("AddThreadNote", "createThreadNote")

\* PlainMCPServer._get_customer_info
GetCustomerInfo ==
    /\ pc = "idle"
    /\ \E customer_id \in {Str(<<"cust_1">>)} :
             Begin("get_customer_info", [customer_id |-> customer_id],
                   GetCustomerQuery(customer_id), "await")

GetCustomerInfoResume ==
    /\ pc = "await"
    /\ call.tool = "get_customer_info"
    /\ Resume("GetCustomer", "customer")

\* PlainMCPServer._analyze_thread_patterns, up to the detail request in flight
AnalyzeThreadPatterns ==
    /\ pc = "idle"
    /\ \E thread_id \in ThreadIds, days_back \in DaysBackArgs :
             Begin("analyze_thread_patterns", [thread_id |-> thread_id, days_back |-> days_back],
                   GetThreadDetailsQuery(thread_id), "await_detail")

\* variant of AfterDetails without the `if not thread_details` return
AfterDetailsAlwaysSearch(thread_details) ==
    IF thread_details.kind = "raise"
    THEN [outcome |-> thread_details, frame |-> NoFrame, search |-> FALSE]
    ELSE IF thread_details.value.t # "dict"
    THEN [outcome |-> Return(NotFound), frame |-> NoFrame, search |-> FALSE]
    ELSE [outcome |-> NoOutcome,
          frame |-> [thread_details |-> thread_details.value,
                     search_terms |-> SearchTerms(thread_details.value).value],
          search |-> TRUE]

\* variant of AfterDetails that answers a failed detail lookup with "not found"
AfterDetailsFaultAsNotFound(thread_details) ==
    IF thread_details.kind = "raise" \/ ~Truthy(thread_details.value)
    THEN [outcome |-> Return(NotFound), frame |-> NoFrame, search |-> FALSE]
    ELSE LET search_terms == SearchTerms(thread_details.value)
         IN IF search_terms.kind = "raise"
            THEN [outcome |-> search_terms, frame |-> NoFrame, search |-> FALSE]
            ELSE [outcome |-> NoOutcome,
                  frame |-> [thread_details |-> thread_details.value,
                             search_terms |-> search_terms.value],
                  search |-> TRUE]

\* what follows the detail reply: not found, or the search request
AfterDetails(thread_details) ==
    IF thread_details.kind = "raise"
    THEN [outcome |-> thread_details, frame |-> NoFrame, search |-> FALSE]
    ELSE IF ~Truthy(thread_details.value)
    THEN [outcome |-> Return(NotFound), frame |-> NoFrame, search |-> FALSE]
    ELSE LET search_terms == SearchTerms(thread_details.value)
         IN IF search_terms.kind = "raise"
            THEN [outcome |-> search_terms, frame |-> NoFrame, search |-> FALSE]
            ELSE [outcome |-> NoOutcome,
                  frame |-> [thread_details |-> thread_details.value,
                             search_terms |-> search_terms.value],
                  search |-> TRUE]

\* the detail reply arrives: thread_details = await self._get_thread_details(thread_id);
\* if not thread_details: return {"error": ...}; ...; await self._search_threads(...)
AnalyzeDetailsResume ==
    /\ pc = "await_detail"
    /\ \E reply \in Replies("GetThreadDetails") :
          LET data == ExecuteQuery(reply)
              next == AfterDetails(IF data.kind = "raise" THEN data ELSE KeyedResult(data.value, "thread"))
          IN /\ replies' = Append(replies, reply)
             /\ fetched' = Append(fetched, data)
             /\ outcome' = next.outcome
             /\ frame' = next.frame
             /\ IF next.search
                THEN /\ posts' = Append(posts,
                             Payload(SearchThreadsQuery(next.frame.search_terms,
                                                        PyInt(AnalyzeSearchLimit)), None))
                     /\ endpoints' = Append(endpoints, BaseUrl)
                     /\ pc' = "await_search"
                ELSE /\ posts' = posts
                     /\ endpoints' = endpoints
                     /\ pc' = "done"
    /\ UNCHANGED <<env, client, call, plain_client, surface, shown, connections>>

\* what follows the search reply: the filtered, truncated result
AfterSearch(similar_threads, thread_id, thread_details, search_terms) ==
    IF similar_threads.kind = "raise" THEN similar_threads
    ELSE LET filtered_results == FilteredResults(similar_threads.value.v["results"].v, thread_id)
         IN IF filtered_results.kind = "raise" THEN filtered_results
            ELSE Return(AnalysisResult(thread_details, filtered_results.value, search_terms))

\* variant of AnalyzeSearchResume that searches once more after a failure
AnalyzeSearchResumeRetrying ==
    /\ pc = "await_search"
    /\ \E reply \in Replies("SearchThreads") :
          LET data == ExecuteQuery(reply)
              again == data.kind = "raise" /\ Len(posts) = 2
          IN /\ replies' = Append(replies, reply)
             /\ fetched' = Append(fetched, data)
             /\ posts' = IF again THEN Append(posts, posts[2]) ELSE posts
             /\ endpoints' = IF again THEN Append(endpoints, BaseUrl) ELSE endpoints
             /\ pc' = IF again THEN "await_search" ELSE "done"
             /\ outcome' = IF again THEN NoOutcome
                           ELSE AfterSearch(
                                  IF data.kind = "raise" THEN data ELSE SearchThreadsResult(data.value),
                                  call.args.thread_id, frame.thread_details, frame.search_terms)
    /\ UNCHANGED <<env, client, call, frame, plain_client, surface, shown, connections>>

\* the search reply arrives
AnalyzeSearchResume ==
    /\ pc = "await_search"
    /\ \E reply \in Replies("SearchThreads") :
          LET data == ExecuteQuery(reply)
          IN /\ replies' = Append(replies, reply)
             /\ fetched' = Append(fetched, data)
             /\ outcome' = AfterSearch(
                    IF data.kind = "raise" THEN data ELSE SearchThreadsResult(data.value),
                    call.args.thread_id, frame.thread_details, frame.search_terms)
    /\ pc' = "done"
    /\ UNCHANGED <<env, client, call, frame, posts, plain_client, surface, shown, endpoints, connections>>

\* PlainClient.execute_query(query, variables) called on the client itself,
\* up to the point where the POST is in flight
ExecuteQueryCall ==
    /\ pc = "idle"
    /\ client = "open"
    /\ \E query \in DirectQueries, variables \in VariablesArgs :
          /\ call' = [tool |-> "execute_query", args |-> [query |-> query, variables |-> variables]]
          /\ posts' = <<Payload(query, variables)>>
    /\ endpoints' = <<BaseUrl>>
    /\ pc' = "await"
    /\ UNCHANGED <<env, client, frame, replies, fetched, outcome, plain_client, surface, shown, connections>>

\* the POST comes back: execute_query returns the data section or raises
ExecuteQueryResume ==
    /\ pc = "await"
    /\ call.tool = "execute_query"
    /\ \E reply \in Replies("GetCustomer") :
          /\ replies' = Append(replies, reply)
          /\ fetched' = Append(fetched, ExecuteQuery(reply))
          /\ outcome' = ExecuteQuery(reply)
    /\ pc' = "done"
    /\ UNCHANGED <<env, client, call, frame, posts, plain_client, surface, shown, endpoints, connections>>

(***************************************************************************)
(* call_tool, the handler PlainMCPServer registers in front of its         *)
(* operations                                                              *)
(***************************************************************************)
\* variant of ToolResult that answers a fault with an empty success text
ToolResultFaultSwallowed(result) ==
    IF result.kind = "return"
    THEN Return(TextContents(JsonText(JsonDumps(result.value))))
    ELSE Return(TextContents(JsonText(JsonDumps(EmptyDict))))

\* return CallToolResult(... json.dumps(result, indent=2)) /
\* except Exception as e: return CallToolResult(... f"Error: {str(e)}")
ToolResult(result) ==
    IF result.kind = "return"
    THEN Return(TextContents(JsonText(JsonDumps(result.value))))
    ELSE Return(TextContents(Str(<<"Error: ">> \o result.value.v)))

\* call_tool(name, arguments) up to the call of the operation: the client
\* check, and the else branch of the dispatch for a name it does not know
CallTool ==
    /\ pc = "idle"
    /\ \E name \in ToolNames \cup {UnknownTool} :
          \E arguments \in Arguments(name) :
             /\ call' = [tool |-> name, args |-> arguments]
             /\ surface' = "call_tool"
             /\ IF client = "None"
                THEN /\ shown' = Return(TextContents(
                                     Str(<<"Error: ", "Plain.com client not initialized">>)))
                     /\ pc' = "done"
                ELSE IF name \notin ToolNames
                THEN /\ shown' = Return(TextContents(Str(<<"Unknown tool: ", name>>)))
                     /\ pc' = "done"
                ELSE /\ shown' = NoOutcome
                     /\ pc' = "dispatch"
    /\ UNCHANGED <<env, client, frame, posts, replies, fetched, outcome, plain_client, endpoints, connections>>

\* result = await self._<name>(**arguments)
Dispatch ==
    /\ pc = "dispatch"
    /\ Begin(call.tool, call.args, QueryFor(call.tool, call.args),
             IF call.tool = "analyze_thread_patterns" THEN "await_detail" ELSE "await")

\* the operation has returned or raised: call_tool returns its text
CallToolReturn ==
    /\ pc = "done"
    /\ surface = "call_tool"
    /\ shown = NoOutcome
    /\ shown' = ToolResult(outcome)
    /\ UNCHANGED <<env, client, pc, call, frame, posts, replies, fetched, outcome,
                   plain_client, surface, endpoints, connections>>

(***************************************************************************)
(* fastserver: the tool functions registered with FastMCP and the          *)
(* module-level client they share                                          *)
(***************************************************************************)
MissingKey == Raise("ValueError", <<"PLAIN_API_KEY environment variable is required">>)

\* variant of GetClient that hands out a client without reading the key
GetClientUnchecked(current, api_key) ==
    [plain_client |-> "open", outcome |-> NoOutcome, created |-> current = "None"]

\* variant of GetClient without the `if plain_client is None` test
GetClientAlwaysNew(current, api_key) ==
    IF ~Truthy(api_key)
    THEN [plain_client |-> current, outcome |-> MissingKey, created |-> FALSE]
    ELSE [plain_client |-> "open", outcome |-> NoOutcome, created |-> TRUE]

\* get_client(): the client to use from now on, the fault raised, and
\* whether a PlainClient was constructed.  The coroutine has no await in
\* it: the test of plain_client and its assignment run without a switch to
\* another task.
GetClient(current, api_key) ==
    IF current = "None"
    THEN IF ~Truthy(api_key)
         THEN [plain_client |-> current, outcome |-> MissingKey, created |-> FALSE]
         ELSE [plain_client |-> "open", outcome |-> NoOutcome, created |-> TRUE]
    ELSE [plain_client |-> current, outcome |-> NoOutcome, created |-> FALSE]

\* client = await get_client(); ...; data = await client.execute_query(query)
\* up to the point where the POST is in flight
FastBegin(tool, args, query, awaiting) ==
    LET got == GetClient(plain_client, env.PLAIN_API_KEY)
    IN /\ call' = [tool |-> tool, args |-> args]
       /\ surface' = "fastmcp"
       /\ shown' = NoOutcome
       /\ replies' = <<>>
       /\ fetched' = <<>>
       /\ plain_client' = got.plain_client
       /\ connections' = IF got.created THEN Append(connections, NewConnection) ELSE connections
       /\ outcome' = got.outcome
       /\ IF got.outcome.kind = "raise"
          THEN /\ posts' = <<>>
               /\ endpoints' = <<>>
               /\ pc' = "done"
          ELSE /\ posts' = <<Payload(query, None)>>
               /\ endpoints' = <<BaseUrl>>
               /\ pc' = awaiting
       /\ UNCHANGED <<env, client, frame>>

\* fastserver.fetch_threads
FastFetchThreads ==
    /\ pc = "idle"
    /\ \E args \in Arguments("fetch_threads") :
          FastBegin("fetch_threads", args, QueryFor("fetch_threads", args), "await")

\* fastserver.search_threads
FastSearchThreads ==
    /\ pc = "idle"
    /\ \E args \in Arguments("search_threads") :
          FastBegin("search_threads", args, QueryFor("search_threads", args), "await")

\* fastserver.get_thread_details
FastGetThreadDetails ==
    /\ pc = "idle"
    /\ \E args \in Arguments("get_thread_details") :
          FastBegin("get_thread_details", args, QueryFor("get_thread_details", args), "await")

\* fastserver.update_thread_status
FastUpdateThreadStatus ==
    /\ pc = "idle"
    /\ \E args \in Arguments("update_thread_status") :
          FastBegin("update_thread_status", args, QueryFor("update_thread_status", args), "await")

\* fastserver.add_thread_note
FastAddThreadNote ==
    /\ pc = "idle"
    /\ \E args \in Arguments("add_thread_note") :
          FastBegin("add_thread_note", args, QueryFor("add_thread_note", args), "await")

\* fastserver.get_customer_info
FastGetCustomerInfo ==
    /\ pc = "idle"
    /\ \E args \in Arguments("get_customer_info") :
          FastBegin("get_customer_info", args, QueryFor("get_customer_info", args), "await")

\* fastserver.analyze_thread_patterns, up to the detail request in flight
FastAnalyzeThreadPatterns ==
    /\ pc = "idle"
    /\ \E args \in Arguments("analyze_thread_patterns") :
          FastBegin("analyze_thread_patterns", args, QueryFor("analyze_thread_patterns", args), "fast_await_detail")

\* what a tool function hands to the tool function that called it: the
\* callee's json.dumps text read back with json.loads, or the callee's fault
ThroughJson(result) ==
    IF result.kind = "raise" THEN result ELSE Return(JsonLoads(JsonDumps(result.value)))

\* the detail reply arrives: thread_details = json.loads(await get_thread_details(thread_id));
\* if not thread_details: return ...; ...; await search_threads(search_terms, limit=10)
FastAnalyzeDetailsResume ==
    /\ pc = "fast_await_detail"
    /\ \E reply \in Replies("GetThreadDetails") :
          LET data == ExecuteQuery(reply)
              next == AfterDetails(ThroughJson(IF data.kind = "raise" THEN data
                                               ELSE KeyedResult(data.value, "thread")))
          IN /\ replies' = Append(replies, reply)
             /\ fetched' = Append(fetched, data)
             /\ outcome' = next.outcome
             /\ frame' = next.frame
             /\ IF next.search
                THEN /\ posts' = Append(posts,
                             Payload(SearchThreadsQuery(next.frame.search_terms,
                                                        PyInt(AnalyzeSearchLimit)), None))
                     /\ endpoints' = Append(endpoints, BaseUrl)
                     /\ pc' = "fast_await_search"
                ELSE /\ posts' = posts
                     /\ endpoints' = endpoints
                     /\ pc' = "done"
    /\ UNCHANGED <<env, client, call, plain_client, surface, shown, connections>>

\* the search reply arrives: similar_threads = json.loads(await search_threads(...))
FastAnalyzeSearchResume ==
    /\ pc = "fast_await_search"
    /\ \E reply \in Replies("SearchThreads") :
          LET data == ExecuteQuery(reply)
          IN /\ replies' = Append(replies, reply)
             /\ fetched' = Append(fetched, data)
             /\ outcome' = AfterSearch(
                    ThroughJson(IF data.kind = "raise" THEN data
                                ELSE SearchThreadsResult(data.value)),
                    call.args.thread_id, frame.thread_details, frame.search_terms)
    /\ pc' = "done"
    /\ UNCHANGED <<env, client, call, frame, posts, plain_client, surface, shown, endpoints, connections>>

\* variant of FastResult that answers a fault with an error text
FastResultFaultAsText(result) ==
    IF result.kind = "return" THEN Return(JsonText(JsonDumps(result.value)))
    ELSE Return(JsonText(JsonDumps(Dict([error |-> Str(result.value.v)]))))

\* return json.dumps(result, indent=2), or the fault leaves the tool function
FastResult(result) ==
    IF result.kind = "return" THEN Return(JsonText(JsonDumps(result.value))) ELSE result

FastReturn ==
    /\ pc = "done"
    /\ surface = "fastmcp"
    /\ shown = NoOutcome
    /\ shown' = FastResult(outcome)
    /\ UNCHANGED <<env, client, pc, call, frame, posts, replies, fetched, outcome,
                   plain_client, surface, endpoints, connections>>

\* the operation's coroutine is finished and its result consumed
Finish ==
    /\ pc = "done"
    /\ surface = "method" \/ shown # NoOutcome
    /\ pc' = "idle"
    /\ call' = NoCall
    /\ frame' = NoFrame
    /\ posts' = <<>>
    /\ replies' = <<>>
    /\ fetched' = <<>>
    /\ outcome' = NoOutcome
    /\ surface' = "method"
    /\ shown' = NoOutcome
    /\ endpoints' = <<>>
    /\ UNCHANGED <<env, client, plain_client, connections>>

\* the ways PlainMCPServer.run, main and fastserver.main end: the server loop
\* returns at the end of its input, or a fault leaves it
ExitPaths == {Return(None), Raise("Exception", <<"stream closed">>)}

\* PlainMCPServer.run and main, fastserver.main: the server loop ends, run
\* returns or raises, and the process exits.  Neither run nor main has a
\* finally block or a call of PlainClient.close.
Exit ==
    /\ pc = "idle"
    /\ pc' = "exited"
    /\ call' = [tool |-> "run", args |-> <<>>]
    /\ \E way \in ExitPaths : outcome' = way
    /\ UNCHANGED <<env, client, frame, posts, replies, fetched, plain_client, surface, shown,
                   endpoints, connections>>

Next ==
    \/ Initialize
    \/ FetchThreads
    \/ FetchThreadsResume
    \/ SearchThreads
    \/ SearchThreadsResume
    \/ GetThreadDetails
    \/ GetThreadDetailsResume
    \/ UpdateThreadStatus
    \/ UpdateThreadStatusResume
    \/ AddThreadNote
    \/ AddThreadNoteResume
    \/ GetCustomerInfo
    \/ GetCustomerInfoResume
    \/ AnalyzeThreadPatterns
    \/ AnalyzeDetailsResume
    \/ AnalyzeSearchResume
    \/ ExecuteQueryCall
    \/ ExecuteQueryResume
    \/ CallTool
    \/ Dispatch
    \/ CallToolReturn
    \/ FastFetchThreads
    \/ FastSearchThreads
    \/ FastGetThreadDetails
    \/ FastUpdateThreadStatus
    \/ FastAddThreadNote
    \/ FastGetCustomerInfo
    \/ FastAnalyzeThreadPatterns
    \/ FastAnalyzeDetailsResume
    \/ FastAnalyzeSearchResume
    \/ FastReturn
    \/ Finish
    \/ Exit

Spec == Init /\ [][Next]_vars

(***************************************************************************)
(* Several invocations in flight at once on one PlainMCPServer, as          *)
(* asyncio.gather runs them: each task is the coroutine of one operation.  *)
(* Under ConcSpec pc, call, frame, posts, replies, fetched, outcome and    *)
(* endpoints are functions of the task; client is the one client they      *)
(* share.  replies[t] holds what the remote API answered to the requests   *)
(* of task t, fetched[t] what execute_query handed to task t.              *)
(***************************************************************************)
Tasks == 1..MaxTasks
Awaiting == {"await", "await_detail", "await_search"}

\* the document of the seq-th request of a tool
DocFor(tool, seq) ==
    CASE tool = "fetch_threads" -> "GetThreads"
      [] tool = "search_threads" -> "SearchThreads"
      [] tool = "get_thread_details" -> "GetThreadDetails"
      [] tool = "update_thread_status" -> "UpdateThreadStatus"
      [] tool = "add_thread_note" -> "AddThreadNote"
      [] tool = "get_customer_info" -> "GetCustomer"
      [] tool = "analyze_thread_patterns" ->
            IF seq = 1 THEN "GetThreadDetails" ELSE "SearchThreads"

\* the key a singleton or mutation result is read from
KeyFor(doc) ==
    CASE doc = "GetThreadDetails" -> "thread"
      [] doc = "UpdateThreadStatus" -> "updateThread"
      [] doc = "AddThreadNote" -> "createThreadNote"
      [] doc = "GetCustomer" -> "customer"
      [] OTHER -> ""

\* data = await self.client.execute_query(query); return <normalized data>
ResultFor(doc, data) ==
    IF data.kind = "raise" THEN data
    ELSE IF doc = "GetThreads" THEN FetchThreadsResult(data.value)
    ELSE IF doc = "SearchThreads" THEN SearchThreadsResult(data.value)
    ELSE KeyedResult(data.value, KeyFor(doc))

\* the invocations that are gathered: one call of each tool
ConcCalls ==
    {[tool |-> "fetch_threads",
      args |-> [status |-> Str(<<"TODO">>), assignee_id |-> None, customer_id |-> None,
                limit |-> PyInt(DefaultLimit), include_resolved |-> Bool(FALSE)]],
     [tool |-> "search_threads",
      args |-> [query |-> Str(<<"concurrent test">>), limit |-> PyInt(DefaultLimit)]],
     [tool |-> "get_thread_details", args |-> [thread_id |-> Str(<<"th_1">>)]],
     [tool |-> "update_thread_status",
      args |-> [thread_id |-> Str(<<"th_1">>), status |-> Str(<<"DONE">>)]],
     [tool |-> "add_thread_note",
      args |-> [thread_id |-> Str(<<"th_1">>), content |-> Str(<<"note">>)]],
     [tool |-> "get_customer_info", args |-> [customer_id |-> Str(<<"cust_1">>)]],
     [tool |-> "analyze_thread_patterns",
      args |-> [thread_id |-> Str(<<"th_1">>), days_back |-> PyInt(30)]]}

\* what the remote API answers to a document while several are in flight: a
\* timeout, an errors collection, or a data section
ConcData(doc) ==
    CASE doc = "GetThreads" ->
            {Dict([threads |-> Dict([edges |-> List(<<Dict([node |-> Thread(Str(<<"th_1">>))])>>),
                                     pageInfo |-> Dict([hasNextPage |-> Bool(FALSE)])])])}
      [] doc = "SearchThreads" ->
            {Dict([searchThreads |-> Dict([edges |-> List(
                <<Dict([node |-> Dict([thread |-> Dict([id |-> Str(<<"th_1">>)])])]),
                  Dict([node |-> Dict([thread |-> Dict([id |-> Str(<<"th_2">>)])])])>>)])])}
      [] doc = "GetThreadDetails" ->
            {EmptyDict, Dict([thread |-> Thread(Str(<<"th_1">>))])}
      [] doc = "UpdateThreadStatus" ->
            {Dict([updateThread |-> Dict([thread |-> Dict([id |-> Str(<<"th_1">>)]),
                                          error |-> None])])}
      [] doc = "AddThreadNote" ->
            {Dict([createThreadNote |-> Dict([threadNote |-> Dict([id |-> Str(<<"n_1">>)]),
                                              error |-> None])])}
      [] doc = "GetCustomer" ->
            {Dict([customer |-> Dict([id |-> Str(<<"cust_1">>), fullName |-> Str(<<"Ada">>)])])}

ConcReplies(doc) ==
    {HttpError("TimeoutException", <<"Request timed out">>),
     Body(Dict([errors |-> List(<<Dict([message |-> Str(<<"Access denied">>)])>>)]))}
    \cup {Body(Dict([data |-> d])) : d \in ConcData(doc)}

\* the requests in flight on the shared connection: the last post of every
\* task that is suspended in execute_query
InFlight ==
    {[task |-> t, seq |-> Len(posts[t])] : t \in {u \in Tasks : pc[u] \in Awaiting}}

\* variant of Awaiter that resumes the next task with the response
AwaiterNextTask(request) == (request.task % MaxTasks) + 1

\* response = await self.client.post(...): the coroutine that is resumed with
\* the response to a request is the one that posted it
Awaiter(request) == request.task

\* one PlainMCPServer constructed, nothing in flight
ConcInit ==
    /\ env \in [PLAIN_API_KEY : {None, Str(<<"key">>)}]
    /\ client = "None"
    /\ pc = [t \in Tasks |-> "idle"]
    /\ call = [t \in Tasks |-> NoCall]
    /\ frame = [t \in Tasks |-> NoFrame]
    /\ posts = [t \in Tasks |-> <<>>]
    /\ replies = [t \in Tasks |-> <<>>]
    /\ fetched = [t \in Tasks |-> <<>>]
    /\ outcome = [t \in Tasks |-> NoOutcome]
    /\ endpoints = [t \in Tasks |-> <<>>]
    /\ plain_client = "None"
    /\ surface = "method"
    /\ shown = NoOutcome
    /\ connections = <<>>

\* PlainMCPServer.run: await self.initialize() before anything is served
ConcInitialize ==
    /\ client = "None"
    /\ Truthy(env.PLAIN_API_KEY)
    /\ client' = "open"
    /\ connections' = Append(connections, NewConnection)
    /\ UNCHANGED <<env, pc, call, frame, posts, replies, fetched, outcome,
                   plain_client, surface, shown, endpoints>>

\* task t starts an operation and runs it up to its first POST
ConcInvoke(t) ==
    /\ client = "open"
    /\ pc[t] = "idle"
    /\ \E c \in ConcCalls :
          /\ call' = [call EXCEPT ![t] = c]
          /\ posts' = [posts EXCEPT ![t] = <<Payload(QueryFor(c.tool, c.args), None)>>]
          /\ pc' = [pc EXCEPT ![t] = IF c.tool = "analyze_thread_patterns"
                                     THEN "await_detail" ELSE "await"]
    /\ endpoints' = [endpoints EXCEPT ![t] = <<BaseUrl>>]
    /\ UNCHANGED <<env, client, frame, replies, fetched, outcome, plain_client, surface, shown, connections>>

\* the response to a request arrives and resumes task t, the coroutine of a
\* one-request operation: it normalizes the data and returns
ConcResume(t) ==
    /\ pc[t] = "await"
    /\ \E r \in InFlight :
          /\ Awaiter(r) = t
          /\ \E reply \in ConcReplies(DocFor(call[r.task].tool, r.seq)) :
                LET data == ExecuteQuery(reply)
                IN /\ replies' = [replies EXCEPT ![r.task] = Append(@, reply)]
                   /\ fetched' = [fetched EXCEPT ![t] = Append(@, data)]
                   /\ outcome' = [outcome EXCEPT ![t] = ResultFor(DocFor(call[t].tool, 1), data)]
    /\ pc' = [pc EXCEPT ![t] = "done"]
    /\ UNCHANGED <<env, client, call, frame, posts, plain_client, surface, shown, endpoints, connections>>

\* the response to a request arrives and resumes task t, which waits for the
\* detail reply of analyze_thread_patterns
ConcDetailsResume(t) ==
    /\ pc[t] = "await_detail"
    /\ \E r \in InFlight :
          /\ Awaiter(r) = t
          /\ \E reply \in ConcReplies(DocFor(call[r.task].tool, r.seq)) :
                LET data == ExecuteQuery(reply)
                    next == AfterDetails(ResultFor("GetThreadDetails", data))
                IN /\ replies' = [replies EXCEPT ![r.task] = Append(@, reply)]
                   /\ fetched' = [fetched EXCEPT ![t] = Append(@, data)]
                   /\ outcome' = [outcome EXCEPT ![t] = next.outcome]
                   /\ frame' = [frame EXCEPT ![t] = next.frame]
                   /\ IF next.search
                      THEN /\ posts' = [posts EXCEPT ![t] = Append(@,
                                   Payload(SearchThreadsQuery(next.frame.search_terms,
                                                              PyInt(AnalyzeSearchLimit)), None))]
                           /\ endpoints' = [endpoints EXCEPT ![t] = Append(@, BaseUrl)]
                           /\ pc' = [pc EXCEPT ![t] = "await_search"]
                      ELSE /\ posts' = posts
                           /\ endpoints' = endpoints
                           /\ pc' = [pc EXCEPT ![t] = "done"]
    /\ UNCHANGED <<env, client, call, plain_client, surface, shown, connections>>

\* the response to a request arrives and resumes task t, which waits for the
\* search reply of analyze_thread_patterns
ConcSearchResume(t) ==
    /\ pc[t] = "await_search"
    /\ \E r \in InFlight :
          /\ Awaiter(r) = t
          /\ \E reply \in ConcReplies(DocFor(call[r.task].tool, r.seq)) :
                LET data == ExecuteQuery(reply)
                IN /\ replies' = [replies EXCEPT ![r.task] = Append(@, reply)]
                   /\ fetched' = [fetched EXCEPT ![t] = Append(@, data)]
                   /\ outcome' = [outcome EXCEPT ![t] =
                          AfterSearch(ResultFor("SearchThreads", data), call[t].args.thread_id,
                                      frame[t].thread_details, frame[t].search_terms)]
    /\ pc' = [pc EXCEPT ![t] = "done"]
    /\ UNCHANGED <<env, client, call, frame, posts, plain_client, surface, shown, endpoints, connections>>

\* gather has collected the result of task t
ConcFinish(t) ==
    /\ pc[t] = "done"
    /\ pc' = [pc EXCEPT ![t] = "idle"]
    /\ call' = [call EXCEPT ![t] = NoCall]
    /\ frame' = [frame EXCEPT ![t] = NoFrame]
    /\ posts' = [posts EXCEPT ![t] = <<>>]
    /\ replies' = [replies EXCEPT ![t] = <<>>]
    /\ fetched' = [fetched EXCEPT ![t] = <<>>]
    /\ outcome' = [outcome EXCEPT ![t] = NoOutcome]
    /\ endpoints' = [endpoints EXCEPT ![t] = <<>>]
    /\ UNCHANGED <<env, client, plain_client, surface, shown, connections>>

ConcNext ==
    \/ ConcInitialize
    \/ \E t \in Tasks : ConcInvoke(t)
    \/ \E t \in Tasks : ConcResume(t)
    \/ \E t \in Tasks : ConcDetailsResume(t)
    \/ \E t \in Tasks : ConcSearchResume(t)
    \/ \E t \in Tasks : ConcFinish(t)

ConcSpec == ConcInit /\ [][ConcNext]_vars

\* task t is resumed with a response
Resumed(t) == ConcResume(t) \/ ConcDetailsResume(t) \/ ConcSearchResume(t)

\* every POST ends, with a response or on the 30 s timeout of the client, and
\* the event loop resumes every coroutine whose response has arrived
ConcFairSpec == ConcSpec /\ \A t \in Tasks : WF_vars(Resumed(t))

(***************************************************************************)
(* Several tool functions of fastserver in flight at once on one event     *)
(* loop.  Under FastConcSpec pc, call, frame, posts, replies, fetched,     *)
(* outcome, shown and endpoints are functions of the task, and client[t]   *)
(* is the local `client` of the tool function task t runs: the place in    *)
(* connections of the PlainClient get_client returned to it, 0 before.     *)
(* plain_client is the one module-level variable they share.               *)
(***************************************************************************)
\* the PlainClient the module-level plain_client refers to: get_client is the
\* only code that constructs one here, and it assigns it at once
GlobalInstance == IF plain_client = "None" THEN 0 ELSE Len(connections)

\* the fastserver module imported, nothing in flight
FastConcInit ==
    /\ env \in [PLAIN_API_KEY : {None, Str(<<"key">>)}]
    /\ plain_client = "None"
    /\ connections = <<>>
    /\ client = [t \in Tasks |-> 0]
    /\ pc = [t \in Tasks |-> "idle"]
    /\ call = [t \in Tasks |-> NoCall]
    /\ frame = [t \in Tasks |-> NoFrame]
    /\ posts = [t \in Tasks |-> <<>>]
    /\ replies = [t \in Tasks |-> <<>>]
    /\ fetched = [t \in Tasks |-> <<>>]
    /\ outcome = [t \in Tasks |-> NoOutcome]
    /\ shown = [t \in Tasks |-> NoOutcome]
    /\ endpoints = [t \in Tasks |-> <<>>]
    /\ surface = "fastmcp"

\* task t starts a tool function: client = await get_client(), then the
\* function runs up to its first POST
FastConcInvoke(t) ==
    /\ pc[t] = "idle"
    /\ \E c \in ConcCalls :
          LET got == GetClient(plain_client, env.PLAIN_API_KEY)
              failed == got.outcome.kind = "raise"
          IN /\ call' = [call EXCEPT ![t] = c]
             /\ plain_client' = got.plain_client
             /\ connections' = IF got.created THEN Append(connections, NewConnection)
                               ELSE connections
             /\ client' = [client EXCEPT ![t] = IF failed THEN 0 ELSE GlobalInstance']
             /\ outcome' = [outcome EXCEPT ![t] = got.outcome]
             /\ shown' = [shown EXCEPT ![t] = IF failed THEN got.outcome ELSE NoOutcome]
             /\ posts' = [posts EXCEPT ![t] =
                            IF failed THEN <<>> ELSE <<Payload(QueryFor(c.tool, c.args), None)>>]
             /\ endpoints' = [endpoints EXCEPT ![t] = IF failed THEN <<>> ELSE <<BaseUrl>>]
             /\ pc' = [pc EXCEPT ![t] = IF failed THEN "done"
                                        ELSE IF c.tool = "analyze_thread_patterns"
                                        THEN "await_detail" ELSE "await"]
    /\ UNCHANGED <<env, frame, replies, fetched, surface>>

\* the response to its request resumes task t, the coroutine of a
\* one-request tool function: it normalizes the data and returns the text
FastConcResume(t) ==
    /\ pc[t] = "await"
    /\ \E r \in InFlight :
          /\ Awaiter(r) = t
          /\ \E reply \in ConcReplies(DocFor(call[r.task].tool, r.seq)) :
                LET data == ExecuteQuery(reply)
                    result == ResultFor(DocFor(call[t].tool, 1), data)
                IN /\ replies' = [replies EXCEPT ![r.task] = Append(@, reply)]
                   /\ fetched' = [fetched EXCEPT ![t] = Append(@, data)]
                   /\ outcome' = [outcome EXCEPT ![t] = result]
                   /\ shown' = [shown EXCEPT ![t] = FastResult(result)]
    /\ pc' = [pc EXCEPT ![t] = "done"]
    /\ UNCHANGED <<env, client, call, frame, posts, plain_client, surface, endpoints,
                   connections>>

\* the response to the detail request resumes task t in
\* analyze_thread_patterns: get_thread_details returns its text, and
\* search_threads is called, which awaits get_client() again
FastConcDetailsResume(t) ==
    /\ pc[t] = "await_detail"
    /\ \E r \in InFlight :
          /\ Awaiter(r) = t
          /\ \E reply \in ConcReplies(DocFor(call[r.task].tool, r.seq)) :
                LET data == ExecuteQuery(reply)
                    next == AfterDetails(ThroughJson(ResultFor("GetThreadDetails", data)))
                    got == GetClient(plain_client, env.PLAIN_API_KEY)
                IN /\ replies' = [replies EXCEPT ![r.task] = Append(@, reply)]
                   /\ fetched' = [fetched EXCEPT ![t] = Append(@, data)]
                   /\ outcome' = [outcome EXCEPT ![t] = next.outcome]
                   /\ frame' = [frame EXCEPT ![t] = next.frame]
                   /\ IF next.search
                      THEN /\ plain_client' = got.plain_client
                           /\ connections' = IF got.created
                                             THEN Append(connections, NewConnection)
                                             ELSE connections
                           /\ client' = [client EXCEPT ![t] = GlobalInstance']
                           /\ posts' = [posts EXCEPT ![t] = Append(@,
                                   Payload(SearchThreadsQuery(next.frame.search_terms,
                                                              PyInt(AnalyzeSearchLimit)), None))]
                           /\ endpoints' = [endpoints EXCEPT ![t] = Append(@, BaseUrl)]
                           /\ shown' = shown
                           /\ pc' = [pc EXCEPT ![t] = "await_search"]
                      ELSE /\ UNCHANGED <<plain_client, connections, client, posts, endpoints>>
                           /\ shown' = [shown EXCEPT ![t] = FastResult(next.outcome)]
                           /\ pc' = [pc EXCEPT ![t] = "done"]
    /\ UNCHANGED <<env, call, surface>>

\* the response to the search request resumes task t in
\* analyze_thread_patterns, which returns its text
FastConcSearchResume(t) ==
    /\ pc[t] = "await_search"
    /\ \E r \in InFlight :
          /\ Awaiter(r) = t
          /\ \E reply \in ConcReplies(DocFor(call[r.task].tool, r.seq)) :
                LET data == ExecuteQuery(reply)
                    result == AfterSearch(ThroughJson(ResultFor("SearchThreads", data)),
                                          call[t].args.thread_id,
                                          frame[t].thread_details, frame[t].search_terms)
                IN /\ replies' = [replies EXCEPT ![r.task] = Append(@, reply)]
                   /\ fetched' = [fetched EXCEPT ![t] = Append(@, data)]
                   /\ outcome' = [outcome EXCEPT ![t] = result]
                   /\ shown' = [shown EXCEPT ![t] = FastResult(result)]
    /\ pc' = [pc EXCEPT ![t] = "done"]
    /\ UNCHANGED <<env, client, call, frame, posts, plain_client, surface, endpoints,
                   connections>>

\* FastMCP has sent the answer of task t; the coroutine and its locals are gone
FastConcFinish(t) ==
    /\ pc[t] = "done"
    /\ pc' = [pc EXCEPT ![t] = "idle"]
    /\ call' = [call EXCEPT ![t] = NoCall]
    /\ frame' = [frame EXCEPT ![t] = NoFrame]
    /\ posts' = [posts EXCEPT ![t] = <<>>]
    /\ replies' = [replies EXCEPT ![t] = <<>>]
    /\ fetched' = [fetched EXCEPT ![t] = <<>>]
    /\ outcome' = [outcome EXCEPT ![t] = NoOutcome]
    /\ shown' = [shown EXCEPT ![t] = NoOutcome]
    /\ endpoints' = [endpoints EXCEPT ![t] = <<>>]
    /\ client' = [client EXCEPT ![t] = 0]
    /\ UNCHANGED <<env, plain_client, surface, connections>>

FastConcNext ==
    \/ \E t \in Tasks : FastConcInvoke(t)
    \/ \E t \in Tasks : FastConcResume(t)
    \/ \E t \in Tasks : FastConcDetailsResume(t)
    \/ \E t \in Tasks : FastConcSearchResume(t)
    \/ \E t \in Tasks : FastConcFinish(t)

FastConcSpec == FastConcInit /\ [][FastConcNext]_vars

(***************************************************************************)
(* A PlainClient used by itself, as a caller that holds one uses it:       *)
(* constructed, queried, closed.  Under ClientSpec client is the caller's   *)
(* PlainClient ("None" before it is constructed) and the last entry of     *)
(* connections is its httpx.AsyncClient.                                   *)
(***************************************************************************)
\* most close() calls a caller makes on one client
MaxCloses == 2

\* client = PlainClient(config)
NewClient ==
    /\ pc = "idle"
    /\ client = "None"
    /\ client' = "open"
    /\ connections' = Append(connections, NewConnection)
    /\ UNCHANGED <<env, pc, call, frame, posts, replies, fetched, outcome, plain_client,
                   surface, shown, endpoints>>

\* PlainClient.close: await self.client.aclose(), whatever was done to the
\* client before
Close ==
    /\ pc = "idle"
    /\ client = "open"
    /\ connections[Len(connections)].aclose < MaxCloses
    /\ connections' = [connections EXCEPT ![Len(connections)].aclose = @ + 1]
    /\ UNCHANGED <<env, client, pc, call, frame, posts, replies, fetched, outcome,
                   plain_client, surface, shown, endpoints>>

\* the caller queries the client it has not closed
QueryBeforeClose ==
    /\ \A i \in DOMAIN connections : connections[i].aclose = 0
    /\ ExecuteQueryCall

ClientNext ==
    \/ NewClient
    \/ QueryBeforeClose
    \/ ExecuteQueryResume
    \/ Finish
    \/ Close

ClientSpec == Init /\ [][ClientNext]_vars

(***************************************************************************)
(* Properties                                                              *)
(***************************************************************************)
Analyzing == call.tool = "analyze_thread_patterns"

\* an analyze_thread_patterns result that is not the "not found" one
Analyzed ==
    /\ Analyzing
    /\ pc = "done"
    /\ outcome.kind = "return"
    /\ "similar_threads" \in DOMAIN outcome.value.v

\* the reply is a decoded body without an errors key
PlainBody(reply) == reply.kind = "body" /\ "errors" \notin DOMAIN reply.body.v

\* the reply to the detail request leaves the detail lookup with {}: no data
\* section, no thread entry in it, or an empty one
DetailIsEmptyMapping(reply) ==
    /\ PlainBody(reply)
    /\ \/ "data" \notin DOMAIN reply.body.v
       \/ /\ reply.body.v.data.t = "dict"
          /\ \/ "thread" \notin DOMAIN reply.body.v.data.v
             \/ reply.body.v.data.v.thread = EmptyDict

IsSearchPost(payload) == Head(payload.query) = "query SearchThreads { searchThreads(searchQuery: { term: \""

\* C1: whenever the detail lookup of analyze_thread_patterns yields an empty
\* mapping, the operation has returned exactly {"error": "Thread not found"}
\* (a value, not a fault) and has posted nothing but the detail request.
C1_NotFound ==
    (Analyzing /\ replies # <<>> /\ DetailIsEmptyMapping(replies[1]))
        => /\ pc = "done"
           /\ outcome = Return(Dict([error |-> Str(<<"Thread not found">>)]))
           /\ Len(posts) = 1
           /\ ~IsSearchPost(posts[1])

C1_Witness ==
    /\ Analyzing
    /\ replies = <<Body(Dict([data |-> Dict([thread |-> EmptyDict])]))>>
    /\ outcome.kind = "return"
    /\ Len(posts) = 1

\* the threads the search reply lists, in order (the reply is well formed
\* whenever the analysis returned a result)
Listed(reply) ==
    LET body == reply.body.v
    IN IF "data" \notin DOMAIN body \/ "searchThreads" \notin DOMAIN body.data.v
          \/ "edges" \notin DOMAIN body.data.v.searchThreads.v
       THEN <<>>
       ELSE LET edges == body.data.v.searchThreads.v.edges.v
            IN [i \in DOMAIN edges |-> edges[i].v.node.v.thread]

HasId(thread, id) == "id" \in DOMAIN thread.v /\ thread.v.id = id

\* the positions of the search reply that do not hold the reference ticket
Others(reply, thread_id) == {i \in DOMAIN Listed(reply) : ~HasId(Listed(reply)[i], thread_id)}

SimilarThreads == outcome.value.v.similar_threads.v

\* C2: in every pattern-analysis result, no entry of similar_threads has the
\* id of the reference ticket (the thread_id the analysis was called with).
C2_SelfExclusion ==
    Analyzed => \A i \in DOMAIN SimilarThreads : ~HasId(SimilarThreads[i], call.args.thread_id)

\* the reference id came back twice, first and last, and something was kept
C2_Witness ==
    /\ Analyzed
    /\ LET listed == Listed(replies[2])
       IN /\ Len(listed) >= 3
          /\ HasId(listed[1], call.args.thread_id)
          /\ HasId(listed[Len(listed)], call.args.thread_id)
    /\ SimilarThreads # <<>>

\* C3: in every pattern-analysis result, similar_threads has min(5, n) entries
\* and analysis.total_found is n, the number of search results other than the
\* reference ticket.
C3_Truncation ==
    Analyzed =>
        LET n == Cardinality(Others(replies[2], call.args.thread_id))
        IN /\ Len(SimilarThreads) = (IF n < 5 THEN n ELSE 5)
           /\ outcome.value.v.analysis.v.total_found = PyInt(n)

\* more were found than are kept
C3_Witness ==
    /\ Analyzed
    /\ Cardinality(Others(replies[2], call.args.thread_id)) = 6
    /\ Len(SimilarThreads) = 5
    /\ outcome.value.v.analysis.v.total_found = PyInt(6)

\* the reply is a decoded body whose errors key holds a list of at least one error
HasErrors(reply) ==
    /\ reply.kind = "body"
    /\ "errors" \in DOMAIN reply.body.v
    /\ reply.body.v.errors.t = "list"
    /\ reply.body.v.errors.v # <<>>

\* the message of one reported error: its message field, or str(error) without one
MessageOf(error) == IF "message" \in DOMAIN error.v THEN error.v.message.v ELSE PyStr(error)

\* the messages of errs[1..n], each followed by "; " but the last
RECURSIVE Semicolons(_, _)
Semicolons(errs, n) ==
    IF n = 0 THEN <<>>
    ELSE IF n = 1 THEN MessageOf(errs[1])
    ELSE Semicolons(errs, n - 1) \o <<"; ">> \o MessageOf(errs[n])

\* C4: when the reply carries N >= 1 errors, execute_query raises a fault whose
\* message is "GraphQL errors: " followed by every error's message, in the
\* order of the errors collection, joined by "; ".
C4_ErrorConcatenation ==
    \A i \in DOMAIN replies :
        HasErrors(replies[i]) =>
            LET errs == replies[i].body.v.errors.v
            IN /\ fetched[i].kind = "raise"
               /\ Head(fetched[i].value.v) = "GraphQL errors: "
               /\ Tail(fetched[i].value.v) = Semicolons(errs, Len(errs))

\* two different messages, both in the fault, in order
C4_Witness ==
    /\ replies # <<>>
    /\ HasErrors(replies[1])
    /\ replies[1].body.v.errors.v
         = <<Dict([message |-> Str(<<"Thread not found">>)]),
             Dict([message |-> Str(<<"Access denied">>)])>>
    /\ fetched[1].value.v = <<"GraphQL errors: ", "Thread not found", "; ", "Access denied">>

\* C5: whenever a reply carries a non-empty errors collection, with or without
\* a data section next to it, execute_query raises the application error, and
\* the operation ends with that fault and returns nothing.
C5_PartialSuccessFails ==
    \A i \in DOMAIN replies :
        HasErrors(replies[i]) =>
            /\ fetched[i].kind = "raise"
            /\ fetched[i].value.t = "Exception"
            /\ Head(fetched[i].value.v) = "GraphQL errors: "
            /\ pc = "done"
            /\ outcome = fetched[i]

\* errors and a non-empty data section in the same reply
C5_Witness ==
    /\ call.tool = "get_thread_details"
    /\ replies # <<>>
    /\ HasErrors(replies[1])
    /\ "data" \in DOMAIN replies[1].body.v
    /\ Truthy(replies[1].body.v.data)
    /\ outcome.kind = "raise"

\* the reply is a decoded body whose errors collection is absent or empty
NoErrors(reply) ==
    /\ reply.kind = "body"
    /\ \/ "errors" \notin DOMAIN reply.body.v
       \/ reply.body.v.errors = EmptyList

\* C6: when the exchange succeeds and the reply's errors collection is absent
\* or empty, execute_query raises nothing and returns the reply's data field,
\* or an empty mapping when there is none.
C6_ReturnsData ==
    \A i \in DOMAIN replies :
        NoErrors(replies[i]) =>
            fetched[i] = Return(IF "data" \in DOMAIN replies[i].body.v
                                THEN replies[i].body.v.data
                                ELSE EmptyDict)

\* C7: when the POST fails at connection level, execute_query raises a fault
\* whose message is "HTTP error: " followed by the cause, and the operation
\* ends with that fault, returning nothing.
C7_TransportFailure ==
    \A i \in DOMAIN replies :
        replies[i].kind = "http_error" =>
            /\ fetched[i].kind = "raise"
            /\ Head(fetched[i].value.v) = "HTTP error: "
            /\ Tail(fetched[i].value.v) = replies[i].cause
            /\ pc = "done"
            /\ outcome = fetched[i]

\* fetch_threads after a timeout
C7_Witness ==
    /\ call.tool = "fetch_threads"
    /\ replies = <<HttpError("TimeoutException", <<"Request timed out">>)>>
    /\ outcome.kind = "raise"
    /\ outcome.value.v = <<"HTTP error: ", "Request timed out">>

\* a listing document has been built and posted
Listing == call.tool = "fetch_threads" /\ posts # <<>>

StatusHead == "status: "
AssigneeHead == "assignedToUser: {userId: \""
CustomerHead == "customerId: \""
DefaultClause == "status: {isIn: [TODO, SNOOZED]}"

\* where a piece of text stands in a document
Where(doc, text) == {i \in DOMAIN doc : doc[i] = text}

\* the clauses of the filter fragment of a document, and the ", " between them
Clauses(doc) ==
    Where(doc, StatusHead) \cup Where(doc, AssigneeHead) \cup Where(doc, CustomerHead)
    \cup Where(doc, DefaultClause)
Separators(doc) == Where(doc, ", ")

\* the fragment holds k clauses joined by ", "
HoldsClauses(doc, k) ==
    /\ Cardinality(Clauses(doc)) = k
    /\ Cardinality(Separators(doc)) = (IF k = 0 THEN 0 ELSE k - 1)

ArgNames == {"status", "assignee_id", "customer_id"}
DefaultCount == IF call.args.include_resolved = Bool(FALSE) THEN 1 ELSE 0

\* C8, as stated: the filter fragment holds one clause per non-null optional
\* argument, plus one when include_resolved is false, joined by ", ".
C8_ClausePerNonNullArgument ==
    Listing =>
        HoldsClauses(posts[1].query,
                     Cardinality({a \in ArgNames : call.args[a] # None}) + DefaultCount)

\* C8, amended: the filter fragment holds one clause per optional argument that
\* is neither null nor the empty string, plus one when include_resolved is
\* false, joined by ", ".
C8_ClausePerNonEmptyArgument ==
    Listing =>
        HoldsClauses(posts[1].query,
                     Cardinality({a \in ArgNames : call.args[a] \notin {None, EmptyStr}})
                        + DefaultCount)

\* an empty status next to a real assignee: two clauses, not three
C8_Witness ==
    /\ Listing
    /\ call.args.status = EmptyStr
    /\ call.args.assignee_id = Str(<<"user_1">>)
    /\ call.args.customer_id = None
    /\ call.args.include_resolved = Bool(FALSE)
    /\ Cardinality(Clauses(posts[1].query)) = 2
    /\ Cardinality(Separators(posts[1].query)) = 1

\* every position of a comes before every position of b
Before(doc, a, b) == \A i \in Where(doc, a), j \in Where(doc, b) : i < j

\* C9: when include_resolved is false the listing filter holds the clause
\* status: {isIn: [TODO, SNOOZED]} once, as the last clause of the filter
\* object, after the explicit clauses, which stand in the order status,
\* assignee, customer; an explicit status clause stands next to it in the same
\* filter object; when include_resolved is true the clause is absent.
C9_DefaultStatusClause ==
    Listing =>
        LET doc == posts[1].query
        IN /\ Before(doc, StatusHead, AssigneeHead)
           /\ Before(doc, StatusHead, CustomerHead)
           /\ Before(doc, AssigneeHead, CustomerHead)
           /\ call.args.include_resolved = Bool(TRUE) => Where(doc, DefaultClause) = {}
           /\ call.args.include_resolved = Bool(FALSE) =>
                 /\ Cardinality(Where(doc, DefaultClause)) = 1
                 /\ Cardinality(Where(doc, "filters: {")) = 1
                 /\ \A i \in Where(doc, DefaultClause) :
                       /\ doc[i + 1] = "}"
                       /\ \A j \in Clauses(doc) : j <= i
                       /\ \A j \in Where(doc, "filters: {") : j < i
                 /\ Truthy(call.args.status) =>
                       /\ Cardinality(Where(doc, StatusHead)) = 1
                       /\ Before(doc, "filters: {", StatusHead)
                       /\ Before(doc, StatusHead, DefaultClause)

\* an explicit status and the default clause in one filter object
C9_Witness ==
    /\ Listing
    /\ call.args.status = Str(<<"TODO">>)
    /\ call.args.include_resolved = Bool(FALSE)
    /\ SubSeq(posts[1].query, 2, 7)
         = <<"filters: {", "status: ", "TODO", ", ", "status: {isIn: [TODO, SNOOZED]}", "}">>

\* the data section of a listing reply in which the threads entry, its edges,
\* the node of an edge, or pageInfo is empty or missing
Incomplete(data) ==
    /\ data.t = "dict"
    /\ \/ "threads" \notin DOMAIN data.v
       \/ /\ data.v.threads.t = "dict"
          /\ \/ "edges" \notin DOMAIN data.v.threads.v
             \/ "pageInfo" \notin DOMAIN data.v.threads.v
             \/ data.v.threads.v.pageInfo = EmptyDict
             \/ data.v.threads.v.edges = EmptyList
             \/ \E i \in DOMAIN data.v.threads.v.edges.v :
                   "node" \notin DOMAIN data.v.threads.v.edges.v[i].v

\* C10: for every data mapping in which the threads entry, its edges, the node
\* of an edge, or pageInfo is empty or missing, fetch_threads raises no fault
\* and returns a thread sequence.
C10_ListNormalizerNeverFails ==
    (/\ call.tool = "fetch_threads"
     /\ replies # <<>>
     /\ fetched[1].kind = "return"
     /\ Incomplete(fetched[1].value))
        => /\ outcome.kind = "return"
           /\ outcome.value.v.threads.t = "list"

\* the key under which the mutation in progress finds its result
MutationKey == IF call.tool = "update_thread_status" THEN "updateThread" ELSE "createThreadNote"

\* the reply has no top-level errors and its mutation result carries a
\* populated error field
BusinessError(reply, key) ==
    /\ PlainBody(reply)
    /\ "data" \in DOMAIN reply.body.v
    /\ reply.body.v.data.t = "dict"
    /\ key \in DOMAIN reply.body.v.data.v
    /\ reply.body.v.data.v[key].t = "dict"
    /\ "error" \in DOMAIN reply.body.v.data.v[key].v
    /\ Truthy(reply.body.v.data.v[key].v["error"])

\* C11: when the reply to update_thread_status or add_thread_note has no
\* top-level errors and its mutation result carries a populated error field,
\* the operation raises nothing and returns the mutation result verbatim,
\* error field included.
C11_BusinessErrorIsData ==
    (/\ call.tool \in {"update_thread_status", "add_thread_note"}
     /\ replies # <<>>
     /\ BusinessError(replies[1], MutationKey))
        => /\ pc = "done"
           /\ outcome = Return(replies[1].body.v.data.v[MutationKey])

\* update_thread_status answered with updateThread.error.message "Invalid status"
C11_Witness ==
    /\ call.tool = "update_thread_status"
    /\ replies # <<>>
    /\ BusinessError(replies[1], "updateThread")
    /\ outcome.kind = "return"
    /\ outcome.value.v["error"] = Dict([message |-> Str(<<"Invalid status">>)])

\* C12: when the detail request or the search request of
\* analyze_thread_patterns fails, the operation ends with that same fault,
\* unchanged, and the failed request is the last one it has posted.
C12_FailurePropagation ==
    Analyzing =>
        \A i \in DOMAIN fetched :
            fetched[i].kind = "raise" =>
                /\ pc = "done"
                /\ outcome = fetched[i]
                /\ Len(posts) = i
                /\ Len(replies) = i

\* the search request fails after a detail request that succeeded
C12_Witness ==
    /\ Analyzing
    /\ Len(fetched) = 2
    /\ fetched[1].kind = "return"
    /\ fetched[2].kind = "raise"
    /\ Len(posts) = 2
    /\ outcome = fetched[2]

\* the detail request fails
C12_DetailFails ==
    /\ Analyzing
    /\ Len(fetched) = 1
    /\ fetched[1].kind = "raise"
    /\ outcome = fetched[1]

\* C13 as stated: no tool invocation ever ends with the fault
\* "PLAIN_API_KEY environment variable is required".
C13_NeverPerCall ==
    call.tool \in ToolNames => (outcome # MissingKey /\ shown # MissingKey)

\* C13, amended: in PlainMCPServer the missing key is a startup-time fault:
\* initialize raises it exactly when the key is absent, and no operation and
\* no call_tool invocation ends with it.  In the FastMCP server it is a
\* per-call fault: with the key absent, every tool invocation ends with it,
\* raised by get_client before anything is posted.
C13_StartupOrPerCall ==
    /\ (call.tool = "initialize" /\ pc = "done")
          => (outcome = MissingKey <=> ~Truthy(env.PLAIN_API_KEY))
    /\ (call.tool \in ToolNames /\ surface # "fastmcp")
          => (outcome # MissingKey /\ shown # MissingKey)
    /\ (call.tool \in ToolNames /\ surface = "fastmcp")
          => /\ outcome = MissingKey <=> ~Truthy(env.PLAIN_API_KEY)
             /\ outcome = MissingKey
                   => /\ pc = "done"
                      /\ posts = <<>>
                      /\ shown \in {NoOutcome, MissingKey}

\* fastserver.fetch_threads called without the key in the environment
C13_Witness ==
    /\ surface = "fastmcp"
    /\ call.tool = "fetch_threads"
    /\ ~Truthy(env.PLAIN_API_KEY)
    /\ shown = MissingKey
    /\ posts = <<>>

\* PlainMCPServer.initialize called without the key in the environment
C13_InitializeFails ==
    /\ call.tool = "initialize"
    /\ outcome = MissingKey
    /\ client = "None"

\* C14: at the tool surface of PlainMCPServer call_tool never raises, and
\* once the operation it dispatched to has raised a fault, what call_tool
\* returns is the text "Error: " followed by the message of that fault.
C14_FaultsBecomeErrorText ==
    surface = "call_tool" =>
        /\ shown.kind # "raise"
        /\ (outcome.kind = "raise" /\ shown # NoOutcome)
               => shown = Return(TextContents(Str(<<"Error: ">> \o outcome.value.v)))

\* call_tool has answered an operation that failed on a transport fault
C14_Witness ==
    /\ surface = "call_tool"
    /\ replies # <<>>
    /\ replies[1].kind = "http_error"
    /\ outcome.kind = "raise"
    /\ shown.kind = "return"
    /\ Head(shown.value.v[1].v.v) = "Error: "

\* the data section holds a searchThreads connection whose edges each carry
\* node.thread
SearchStructure(data) ==
    /\ data.t = "dict"
    /\ "searchThreads" \in DOMAIN data.v
    /\ data.v.searchThreads.t = "dict"
    /\ "edges" \in DOMAIN data.v.searchThreads.v
    /\ \A i \in DOMAIN data.v.searchThreads.v.edges.v :
          /\ "node" \in DOMAIN data.v.searchThreads.v.edges.v[i].v
          /\ "thread" \in DOMAIN data.v.searchThreads.v.edges.v[i].v.node.v

\* the node.thread records of a search connection, in the order of its edges
HitsOf(data) ==
    [i \in DOMAIN data.v.searchThreads.v.edges.v |->
        data.v.searchThreads.v.edges.v[i].v.node.v.thread]

\* C16 as stated: whatever search_threads returns has two fields, one of
\* them a boolean "has more" flag.
C16_TwoFieldResult ==
    (call.tool = "search_threads" /\ replies # <<>> /\ outcome.kind = "return")
        => /\ Cardinality(DOMAIN outcome.value.v) = 2
           /\ \E k \in DOMAIN outcome.value.v : outcome.value.v[k].t = "bool"

\* C16, amended: whatever search_threads returns has the single field
\* results and no "has more" flag; for a search reply whose edges each carry
\* node.thread, results is the sequence of those records in the order of the
\* edges.
C16_SingleFieldResult ==
    (call.tool = "search_threads" /\ replies # <<>>)
        => /\ outcome.kind = "return" => DOMAIN outcome.value.v = {"results"}
           /\ (fetched[1].kind = "return" /\ SearchStructure(fetched[1].value))
                 => outcome = Return(Dict([results |-> List(HitsOf(fetched[1].value))]))

\* search_threads answered with the hits th_2, th_1
C16_Witness ==
    /\ call.tool = "search_threads"
    /\ replies # <<>>
    /\ fetched[1].kind = "return"
    /\ SearchStructure(fetched[1].value)
    /\ outcome = Return(Dict([results |-> List(<<Dict([id |-> Str(<<"th_2">>)]),
                                                 Dict([id |-> Str(<<"th_1">>)])>>)]))

\* the key under which the lookup in progress finds its record
SingletonKey == IF call.tool = "get_thread_details" THEN "thread" ELSE "customer"

\* C17: for every data value execute_query returns to get_thread_details or
\* get_customer_info, the operation raises nothing and returns the record
\* stored under its key, or an empty mapping when the key is absent.
C17_SingletonNeverFails ==
    (/\ call.tool \in {"get_thread_details", "get_customer_info"}
     /\ replies # <<>>
     /\ fetched[1].kind = "return")
        => outcome = Return(IF SingletonKey \in DOMAIN fetched[1].value.v
                            THEN fetched[1].value.v[SingletonKey]
                            ELSE EmptyDict)

\* the same for the data values that are mappings
C17_OnMappings ==
    (/\ call.tool \in {"get_thread_details", "get_customer_info"}
     /\ replies # <<>>
     /\ fetched[1].kind = "return"
     /\ fetched[1].value.t = "dict")
        => outcome = Return(IF SingletonKey \in DOMAIN fetched[1].value.v
                            THEN fetched[1].value.v[SingletonKey]
                            ELSE EmptyDict)

\* the data section holds a threads connection with edges that each carry a
\* node, and pageInfo.hasNextPage
ListingStructure(data) ==
    /\ data.t = "dict"
    /\ "threads" \in DOMAIN data.v
    /\ data.v.threads.t = "dict"
    /\ {"edges", "pageInfo"} \subseteq DOMAIN data.v.threads.v
    /\ "hasNextPage" \in DOMAIN data.v.threads.v.pageInfo.v
    /\ \A i \in DOMAIN data.v.threads.v.edges.v :
          "node" \in DOMAIN data.v.threads.v.edges.v[i].v

\* C20: for every listing reply (edges that each carry a node, and
\* pageInfo.hasNextPage), fetch_threads returns the node of each edge in the
\* order of the edges, none dropped, and hasMore equal to hasNextPage.
C20_ListNormalizerResult ==
    (/\ call.tool = "fetch_threads"
     /\ replies # <<>>
     /\ fetched[1].kind = "return"
     /\ ListingStructure(fetched[1].value))
        => LET conn == fetched[1].value.v.threads.v
           IN outcome = Return(Dict([threads |-> List([i \in DOMAIN conn.edges.v |->
                                                         conn.edges.v[i].v.node]),
                                     hasMore |-> conn.pageInfo.v.hasNextPage]))

\* fetch_threads answered with the threads th_2, th_1 and hasNextPage true
C20_Witness ==
    /\ call.tool = "fetch_threads"
    /\ replies # <<>>
    /\ fetched[1].kind = "return"
    /\ ListingStructure(fetched[1].value)
    /\ outcome = Return(Dict([threads |-> List(<<Thread(Str(<<"th_2">>)), Thread(Str(<<"th_1">>))>>),
                              hasMore |-> Bool(TRUE)]))

\* the document and the variables the i-th execute_query call of the
\* operation in progress was given
QueryPassed(i) ==
    IF call.tool = "execute_query" THEN call.args.query
    ELSE IF i = 1 THEN QueryFor(call.tool, call.args)
    ELSE SearchThreadsQuery(frame.search_terms, PyInt(AnalyzeSearchLimit))
VariablesPassed(i) ==
    IF call.tool = "execute_query" THEN call.args.variables ELSE None

\* C18: every execute_query call posts, to the configured endpoint, a body
\* with exactly the two fields query and variables: query is the document
\* the call was given, variables the mapping it was given, or an empty
\* mapping when it was given none.
C18_RequestEnvelope ==
    /\ Len(endpoints) = Len(posts)
    /\ \A i \in DOMAIN posts :
          /\ endpoints[i] = BaseUrl
          /\ DOMAIN posts[i] = {"query", "variables"}
          /\ posts[i].query = QueryPassed(i)
          /\ posts[i].variables = IF VariablesPassed(i) = None THEN EmptyDict
                                  ELSE VariablesPassed(i)

\* execute_query("query { test }") called without variables
C18_Witness ==
    /\ call.tool = "execute_query"
    /\ call.args.variables = None
    /\ posts = <<[query |-> <<"query { test }">>, variables |-> EmptyDict]>>
    /\ endpoints = <<BaseUrl>>
    /\ replies # <<>>

\* execute_query called with variables
C18_WithVariables ==
    /\ call.tool = "execute_query"
    /\ posts # <<>>
    /\ posts[1].variables = Dict([var1 |-> Str(<<"value1">>)])

\* what an operation returns or raises when it runs alone and the remote API
\* answers its requests with rs, in order
RunAlone(tool, args, rs) ==
    IF tool # "analyze_thread_patterns"
    THEN ResultFor(DocFor(tool, 1), ExecuteQuery(rs[1]))
    ELSE LET next == AfterDetails(ResultFor("GetThreadDetails", ExecuteQuery(rs[1])))
         IN IF ~next.search THEN next.outcome
            ELSE AfterSearch(ResultFor("SearchThreads", ExecuteQuery(rs[2])), args.thread_id,
                             next.frame.thread_details, next.frame.search_terms)

\* RunAlone is what the operations of Spec, one at a time, end with
RunAloneIsSequential ==
    (call.tool \in ToolNames /\ pc = "done" /\ replies # <<>>)
        => outcome = RunAlone(call.tool, call.args, replies)

\* every task is handed the answers to its own requests and no others, and
\* a task that is done holds the result of its operation run alone on them
Independent ==
    \A t \in Tasks :
        /\ fetched[t] = [i \in DOMAIN replies[t] |-> ExecuteQuery(replies[t][i])]
        /\ pc[t] = "done" => outcome[t] = RunAlone(call[t].tool, call[t].args, replies[t])

\* C15: with several invocations in flight at once on the shared client, in
\* every interleaving of their requests and replies, each invocation ends
\* with the result its operation produces alone on the same arguments and the
\* same replies to its own requests, and each invocation that is waiting for
\* a reply does end.
C15_ConcurrentIndependence ==
    /\ []Independent
    /\ \A t \in Tasks : (pc[t] \in Awaiting) ~> (pc[t] = "done")

\* two operations were in flight at once and the one started last ended
\* first: task 1 still waits for its search reply while task 2 is done
C15_Witness ==
    /\ pc[1] = "await_search"
    /\ call[2].tool = "fetch_threads"
    /\ pc[2] = "done"
    /\ outcome[2].kind = "return"
    /\ Len(replies[1]) = 1

\* the text call_tool returns when the client is unset
NotInitializedText == Return(TextContents(Str(<<"Error: ", "Plain.com client not initialized">>)))

\* C19: while the client of PlainMCPServer is unset, an invocation of any of
\* the seven operations has ended without posting anything: the operation
\* called directly has raised ValueError("Plain.com client not initialized"),
\* and call_tool has returned the text "Error: Plain.com client not
\* initialized".
C19_NotInitialized ==
    (client = "None" /\ call.tool \in ToolNames /\ surface # "fastmcp")
        => /\ pc = "done"
           /\ posts = <<>>
           /\ endpoints = <<>>
           /\ replies = <<>>
           /\ surface = "method" => outcome = NotInitialized
           /\ surface = "call_tool" => shown = NotInitializedText

\* analyze_thread_patterns called on a server that was never initialized
C19_Witness ==
    /\ client = "None"
    /\ call.tool = "analyze_thread_patterns"
    /\ surface = "method"
    /\ outcome = NotInitialized
    /\ posts = <<>>

\* call_tool called on a server that was never initialized
C19_CallToolReached ==
    /\ client = "None"
    /\ call.tool = "fetch_threads"
    /\ surface = "call_tool"
    /\ shown = NotInitializedText

\* the i-th smallest member of a set of positions
Nth(S, i) == CHOOSE p \in S : Cardinality({q \in S : q < p}) = i - 1

\* C21: in every pattern-analysis result, similar_threads is the first
\* min(5, n) entries of the search results other than the reference ticket,
\* in the order the search reply lists them: the k-th entry of
\* similar_threads is the k-th search result that is not the reference
\* ticket.
C21_OrderPreservation ==
    Analyzed =>
        LET listed == Listed(replies[2])
            others == Others(replies[2], call.args.thread_id)
            n == Cardinality(others)
        IN SimilarThreads = [k \in 1..(IF n < 5 THEN n ELSE 5) |-> listed[Nth(others, k)]]

\* six results, the reference ticket second among them, and the five others
\* kept in their order, two different ones first
C21_Witness ==
    /\ Analyzed
    /\ LET listed == Listed(replies[2])
       IN /\ Len(listed) = 6
          /\ HasId(listed[2], call.args.thread_id)
          /\ listed[1] # listed[3]
          /\ SimilarThreads = <<listed[1], listed[3], listed[4], listed[5], listed[6]>>

\* C22: when the body of a reply cannot be decoded as JSON, execute_query
\* raises the same kind of fault as for a connection-level failure: the
\* Exception whose message is "HTTP error: " followed by the cause.
C22_MalformedBodyIsTransportFailure ==
    \A i \in DOMAIN replies :
        replies[i].kind = "bad_json" =>
            /\ fetched[i].kind = "raise"
            /\ fetched[i].value.t = "Exception"
            /\ Head(fetched[i].value.v) = "HTTP error: "
            /\ Tail(fetched[i].value.v) = replies[i].cause

\* what does hold: the decoding fault leaves execute_query as it was raised,
\* a ValueError with the cause as its message, and ends the operation
C22_DecodingFaultReraised ==
    \A i \in DOMAIN replies :
        replies[i].kind = "bad_json" =>
            /\ fetched[i] = Raise("ValueError", replies[i].cause)
            /\ pc = "done"
            /\ outcome = fetched[i]

\* the operations that make one request
SimpleTools == ToolNames \ {"analyze_thread_patterns"}

\* the client the invocation in progress works with
ClientInUse == IF surface = "fastmcp" THEN plain_client ELSE client

\* C23: every invocation of one of the six simple operations on an
\* initialized client posts exactly one request, the one built from its own
\* arguments, and ends on the one reply to it, whether that reply is a
\* failure, a page with hasMore true, or the answer to arguments that were
\* used before: nothing is posted again and nothing is answered without a
\* request.
C23_OneRequestPerCall ==
    (call.tool \in SimpleTools /\ ClientInUse = "open" /\ pc \in {"await", "done"})
        => /\ Len(posts) = 1
           /\ posts[1].query = QueryFor(call.tool, call.args)
           /\ Len(replies) = (IF pc = "done" THEN 1 ELSE 0)
           /\ Len(fetched) = Len(replies)

\* fetch_threads has ended on a timeout with its one request posted
C23_Witness ==
    /\ call.tool = "fetch_threads"
    /\ pc = "done"
    /\ replies = <<HttpError("TimeoutException", <<"Request timed out">>)>>
    /\ outcome.kind = "raise"
    /\ Len(posts) = 1

\* fetch_threads has returned a page with hasMore true and asked for no other
C23_MorePages ==
    /\ call.tool = "fetch_threads"
    /\ pc = "done"
    /\ outcome.kind = "return"
    /\ outcome.value.v.hasMore = Bool(TRUE)
    /\ Len(posts) = 1

\* the result bound a search document asks for: the text after "first: "
SearchBound(doc) == {doc[i + 1] : i \in Where(doc, "\" }, first: ")}

\* the detail lookup of the analysis in progress came back with a non-empty
\* record
DetailNonEmpty ==
    /\ fetched # <<>>
    /\ fetched[1].kind = "return"
    /\ fetched[1].value.t = "dict"
    /\ "thread" \in DOMAIN fetched[1].value.v
    /\ fetched[1].value.v.thread.t = "dict"
    /\ Truthy(fetched[1].value.v.thread)

\* C24: every analyze_thread_patterns invocation on an initialized client
\* posts first one detail request for its thread_id; it posts a second
\* request exactly when the detail reply has arrived and is non-empty, and
\* that request is a search with the result bound 10; it never posts a third
\* request, and never holds a search request without the detail reply.
C24_AnalyzeCallSequence ==
    (Analyzing /\ ClientInUse = "open" /\ pc \notin {"idle", "dispatch"})
        => /\ Len(posts) \in {1, 2}
           /\ Len(replies) <= Len(posts)
           /\ posts[1].query = GetThreadDetailsQuery(call.args.thread_id)
           /\ ~IsSearchPost(posts[1])
           /\ Len(posts) = 2 <=> DetailNonEmpty
           /\ Len(posts) = 2 =>
                 /\ replies # <<>>
                 /\ IsSearchPost(posts[2])
                 /\ SearchBound(posts[2].query) = {"10"}

\* the detail request, its reply, then the search request and its reply
C24_Witness ==
    /\ Analyzed
    /\ Len(posts) = 2
    /\ Len(replies) = 2
    /\ ~IsSearchPost(posts[1])
    /\ IsSearchPost(posts[2])
    /\ SearchBound(posts[2].query) = {"10"}

\* the term a search document asks for: the text between `term: "` and `" }`
TermSent(doc) ==
    LET close == CHOOSE i \in Where(doc, "\" }, first: ") : TRUE
    IN SubSeq(doc, 2, close - 1)

\* what a field of the detail record contributes to the term when it is a
\* string or not there
Contribution(record, field) ==
    IF field \in DOMAIN record.v THEN record.v[field].v ELSE <<>>

\* the field is a string, possibly empty, or not in the record
TextOrAbsent(record, field) == field \in DOMAIN record.v => record.v[field].t = "str"

\* C25: once pattern analysis has posted its search, the term of the search
\* document is the title of the detail record, one space, and its
\* description, where a title or description that is the empty string or not
\* in the record contributes nothing; and analysis.search_terms of the result
\* is the term that was sent.
C25_SearchTerm ==
    (Analyzing /\ Len(posts) = 2) =>
        LET record == fetched[1].value.v.thread
        IN /\ (TextOrAbsent(record, "title") /\ TextOrAbsent(record, "description"))
                 => TermSent(posts[2].query)
                      = Contribution(record, "title") \o <<" ">> \o Contribution(record, "description")
           /\ Analyzed => outcome.value.v.analysis.v.search_terms = Str(TermSent(posts[2].query))

\* a record without a title and with an empty description: the term is the
\* single space
C25_Witness ==
    /\ Analyzed
    /\ "title" \notin DOMAIN fetched[1].value.v.thread.v
    /\ fetched[1].value.v.thread.v.description = EmptyStr
    /\ TermSent(posts[2].query) = <<" ">>
    /\ outcome.value.v.analysis.v.search_terms = Str(<<" ">>)

\* a record with both: "Login bug cannot log in"
C25_BothPresent ==
    /\ Analyzed
    /\ TermSent(posts[2].query) = <<"Login bug", " ", "cannot log in">>

\* a record whose description is null: the term ends in the text None
C25_NullDescription ==
    /\ Analyzed
    /\ fetched[1].value.v.thread.v.description = None
    /\ TermSent(posts[2].query) = <<"Login bug", " ", "None">>

\* the requests analyze_thread_patterns posts when it is called with args and
\* its requests are answered with rs, in order
AnalyzePosts(args, rs) ==
    LET next == AfterDetails(ResultFor("GetThreadDetails", ExecuteQuery(rs[1])))
    IN <<Payload(QueryFor("analyze_thread_patterns", args), None)>>
       \o (IF next.search
           THEN <<Payload(SearchThreadsQuery(next.frame.search_terms, PyInt(AnalyzeSearchLimit)),
                          None)>>
           ELSE <<>>)

\* C26: at every point of an analyze_thread_patterns invocation, the
\* documents it has posted and the result it has ended with are those of the
\* invocation with any other days_back, the same thread_id and the same
\* replies.
C26_DaysBackIsNoOp ==
    (Analyzing /\ posts # <<>>) =>
        \A days_back \in DaysBackArgs :
            LET other == [call.args EXCEPT !.days_back = days_back]
            IN /\ posts[1] = Payload(QueryFor("analyze_thread_patterns", other), None)
               /\ replies # <<>> => posts = AnalyzePosts(other, replies)
               /\ pc = "done" => outcome = RunAlone("analyze_thread_patterns", other, replies)

\* an analysis over the last 7 days has returned what the one over the last
\* 30 days returns
C26_Witness ==
    /\ Analyzed
    /\ call.args.days_back = PyInt(7)
    /\ Len(posts) = 2
    /\ outcome = RunAlone("analyze_thread_patterns",
                          [thread_id |-> call.args.thread_id, days_back |-> PyInt(30)], replies)

\* and one over the last 30 days has returned
C26_ThirtyDays ==
    /\ Analyzed
    /\ call.args.days_back = PyInt(30)
    /\ surface = "fastmcp"

\* C27: in every interleaving of tool functions of the FastMCP server, at
\* most one PlainClient, and with it one transport connection, has been
\* constructed; every invocation that got a client from get_client holds that
\* one instance, which is the one plain_client refers to; and every
\* invocation that has posted holds it.
C27_CreateOnce ==
    /\ Len(connections) <= 1
    /\ \A t \in Tasks :
          /\ client[t] # 0 => (client[t] = 1 /\ GlobalInstance = 1)
          /\ posts[t] # <<>> => client[t] = 1

\* two invocations in flight at once, both on the one client that the first
\* of them made get_client construct
C27_Witness ==
    /\ pc[1] \in Awaiting
    /\ pc[2] \in Awaiting
    /\ client[1] = 1
    /\ client[2] = 1
    /\ Len(connections) = 1
    /\ plain_client = "open"

\* pattern analysis asked get_client a second time, for its search
C27_SecondGetClient ==
    /\ pc[1] = "await_search"
    /\ client[1] = 1
    /\ Len(posts[1]) = 2

\* C28: once the server has shut down, on the normal and on the error exit
\* path, every transport connection that was created has been released
\* exactly once.
C28_ReleasedExactlyOnce ==
    pc = "exited" => \A i \in DOMAIN connections : connections[i].aclose = 1

\* what does hold: no step of either server releases a connection, on any
\* path
C28_NeverReleased ==
    \A i \in DOMAIN connections : connections[i].aclose = 0

\* both servers have created their client and the process has exited on a
\* fault
C28_ExitedOnFault ==
    /\ pc = "exited"
    /\ outcome.kind = "raise"
    /\ Len(connections) = 2

C29_ClosedTwice ==
    /\ client = "open"
    /\ connections = <<[aclose |-> 2]>>

\* the requests an operation of PlainMCPServer posts when it is called with
\* args and its requests are answered with rs, in order
PostsAlone(tool, args, rs) ==
    IF tool = "analyze_thread_patterns" THEN AnalyzePosts(args, rs)
    ELSE <<Payload(QueryFor(tool, args), None)>>

\* the text a FastMCP tool function returns for the result of the
\* PlainMCPServer operation, or the fault it raises for its fault
Serialized(result) ==
    IF result.kind = "return" THEN Return(JsonText(JsonDumps(result.value))) ELSE result

C30_NotFoundPath ==
    /\ surface = "fastmcp"
    /\ Analyzing
    /\ plain_client = "open"
    /\ shown = Return(JsonText(JsonDumps(NotFound)))

\* a fault path of the FastMCP analyze_thread_patterns
C30_FaultPath ==
    /\ surface = "fastmcp"
    /\ Analyzing
    /\ Len(replies) = 2
    /\ shown.kind = "raise"

====
